---- MODULE Spec2Model ----
(***************************************************************************)
(* templatefs: the file-handle store, the template dispatch of the FUSE    *)
(* operations and the executable-template driver (src/fuseOperations.c),   *)
(* with the top-level render entry (src/processTemplate.c).                *)
(*                                                                         *)
(* One action per kernel callback.  openFileOp on an executable template   *)
(* blocks in epoll_wait and waitpid while the forked child runs, so it is  *)
(* split at those two blocking calls: OpenFileOp runs the handler up to    *)
(* the fork, DrainIteration is one pass of the do-while drain loop, the    *)
(* Child* actions are the child's steps, and ExecReturn is the handler     *)
(* from waitpid to the return of openFileOp.                               *)
(***************************************************************************)
EXTENDS Integers, Sequences, FiniteSets, TLC

\* ------------------------------------------------------------------ bounds
\* fuse_file_info objects the kernel hands to open (one per open)
MaxOpens == 1
\* bytes the child writes to its standard output / standard error
MaxChildOut == 1
MaxChildErr == 1
\* longest lower-tree or root file
MaxFileLen == 1
\* largest size of a read
MaxRead == 2
MaxDirEntries == 4
MaxFill == 2
MaxEnter == 2
MaxWaits == 2
MaxSize == 3
MaxHeadroom == 2
MaxAvailable == 5

\* ------------------------------------------------------- program constants
EPERM == 1
ENOENT == 2
EBADF == 9
ECHILD == 10
EAGAIN == 11
ENOMEM == 12
EFAULT == 14
EINVAL == 22
ENFILE == 23
EMFILE == 24
EADDRNOTAVAIL == 99
ENOTDIR == 20
\* <stdio.h>: readFileOp returns -EOF
EOF == -1
\* newElasticBuffer( 16384, 2048 )
kBufSize == 16384
kHeadroom == 2048
\* mustach's error for a template it cannot parse
MUSTACH_ERROR_UNEXPECTED_END == -2
MUSTACH_ERROR_TOO_DEEP == -6
SIGSEGV == 11

Tok == 1 .. MaxOpens
NoTok == 0
NULL == 0

Paths == {"/n", "/t", "/b", "/e", "/d"}

\* st_mode as the set of its bits
WriteBits == {"S_IWUSR", "S_IWGRP", "S_IWOTH"}
ExecBits == {"S_IXUSR", "S_IXGRP", "S_IXOTH"}
ReadBits == {"S_IRUSR", "S_IRGRP", "S_IROTH"}

NoFile == [exists |-> FALSE, mode |-> {}, owner |-> 0, data |-> <<>>]
File(m, d) == [exists |-> TRUE, mode |-> m, owner |-> 0, data |-> d]

\* a template text: literal bytes, {{k}} tags and an unterminated tag
Lit(b) == [kind |-> "lit", v |-> b]
TagK == [kind |-> "tag", v |-> 0]
TagBad == [kind |-> "bad", v |-> 0]

\* the bytes a child writes: the n-th byte of its standard output is n, so
\* that the order can be read off the bytes, and no byte of its standard
\* error is a byte of its standard output
OutByte(n) == n
ErrByte(n) == 10 + n
\* the child's own fprintf( stderr, "child wrote to stderr\n" ) before execve
ChildStderrBanner == <<10>>

VARIABLES
    tmplTree,   \* the template tree: path -> file
    lower,      \* the lower tree (the mountpoint): path -> file
    rootfs,     \* the process's own root directory: path -> file
    store,      \* the configuration store: the value of system:/config/k
    handles,    \* heap of tFileHandle, indexed by the handle's address
    tokens,     \* fi->fh of each fuse_file_info
    tokSt,      \* what the kernel knows of each fuse_file_info
    fds,        \* the descriptor table
    ex,         \* the executeTemplate call in progress, if any
    last,       \* the callback entered last, with its outputs once returned
    dir,        \* a directory of the lower tree, its stream, and the tFHDir on it
    context,    \* the tMustachContext of a render: the section stack
    elastic,    \* a tElasticBuffer
    boot,       \* main: the command line and how far startup has come
    render      \* a processTemplate call: the mapping and the store handles

\* the state of the callbacks, and the state of the parts that are looked at
\* on their own
fsvars == <<tmplTree, lower, rootfs, store, handles, tokens, tokSt, fds, ex, last>>
aux == <<dir, context, elastic, boot, render>>
vars == <<tmplTree, lower, rootfs, store, handles, tokens, tokSt, fds, ex, last,
          dir, context, elastic, boot, render>>

\* a part that is not looked at stays empty
AuxInit ==
    /\ dir = <<>>
    /\ context = <<>>
    /\ elastic = <<>>
    /\ boot = <<>>
    /\ render = <<>>

\* ------------------------------------------------------------- data model
NullBuf == [null |-> TRUE, bytes |-> <<>>]
Buf(bytes) == [null |-> FALSE, bytes |-> bytes]

\* calloc( 1, sizeof( tFileHandle ) )
ZeroHandle ==
    [alloc |-> TRUE, type |-> "notInitialized", path |-> "", fd |-> 0,
     isTemplate |-> FALSE, isExecutable |-> FALSE,
     contents |-> NullBuf, length |-> 0,
     \* history, not program state: whether the render ran to success, whether
     \* a cache buffer was ever attached, and the free() calls made
     rendered |-> "no", cached |-> FALSE, frees |-> 0, cacheFrees |-> 0]

NoHandle == [ZeroHandle EXCEPT !.alloc = FALSE]

NoFd == [open |-> FALSE, tree |-> "none", path |-> "", closes |-> 0]

NoLast ==
    [op |-> "none", tok |-> NoTok, path |-> "", result |-> 0,
     mode |-> {}, size |-> 0, data |-> <<>>, log |-> <<>>,
     \* what held when the callback ran: whether path had a template entry,
     \* the call that failed, and what the child wrote to its standard output
     tmpl |-> FALSE, fault |-> "none", childOut |-> <<>>,
     \* the passes of the drain loop in which epoll_wait reported no event
     waits |-> 0,
     \* the file the callback's system call acted on: <<tree, path>>
     target |-> <<>>]

Ret(op, tok, path, result) ==
    [NoLast EXCEPT !.op = op, !.tok = tok, !.path = path, !.result = result,
                   !.tmpl = (path \in Paths /\ tmplTree[path].exists)]

Min(a, b) == IF a < b THEN a ELSE b
Max(a, b) == IF a > b THEN a ELSE b

\* the bytes [offset, offset + size) of data
Slice(data, offset, size) ==
    SubSeq(data, offset + 1, Min(Len(data), offset + size))

\* data after ftruncate/truncate to size
Resize(data, size) ==
    [i \in 1 .. size |-> IF i <= Len(data) THEN data[i] ELSE 0]

\* data after pwrite of buf at offset
Overlay(data, offset, buf) ==
    [i \in 1 .. Max(Len(data), offset + Len(buf)) |->
        IF i > offset /\ i <= offset + Len(buf) THEN buf[i - offset]
        ELSE IF i <= Len(data) THEN data[i] ELSE 0]

\* ----------------------------------------------------------- handle store
fixupResult(result, errno) == IF result = -1 THEN -errno ELSE result

\* faulty variant: the type tag of the handle is not tested
getFileHandle_AnyType(fi) ==
    IF fi # NoTok /\ tokens[fi] # NULL THEN tokens[fi] ELSE NULL

\* fi is NoTok when the request carries no fuse_file_info
getFileHandle(fi) ==
    IF fi # NoTok /\ tokens[fi] # NULL /\ handles[tokens[fi]].type = "isFile"
    THEN tokens[fi] ELSE NULL

hasTemplate(path) == tmplTree[path].exists

isExecutable(path) ==
    tmplTree[path].exists /\ tmplTree[path].mode \cap ExecBits # {}

\* the file a descriptor refers to
FdFile(fd) ==
    IF fd \notin DOMAIN fds \/ ~fds[fd].open THEN NoFile
    ELSE IF fds[fd].tree = "templates" THEN tmplTree[fds[fd].path]
    ELSE lower[fds[fd].path]

FdValid(fd) == fd \in DOMAIN fds /\ fds[fd].open

\* ---------------------------------------------------------- elastic buffer
newElasticBuffer(size, headroom) ==
    [data |-> <<>>, available |-> 0, remaining |-> size, headroom |-> headroom]

\* a makeRoom that grows by the headroom, once
makeRoom_GrowsByHeadroom(buf) ==
    IF buf.remaining < buf.headroom
    THEN [buf EXCEPT !.remaining = @ + buf.headroom]
    ELSE buf

makeRoom(buf) ==
    IF buf.remaining < buf.headroom
    THEN [buf EXCEPT !.remaining = @ + buf.headroom * 2]
    ELSE buf

\* size_t and ssize_t have the same width; it is narrowed from 64 bits to
\* SizeBits so that the values can be computed.  An ssize_t that takes the
\* sum or difference with a size_t takes it modulo 2^SizeBits
SizeBits == 16

ToSize(n) == n % (2 ^ SizeBits)

ToSsize(n) ==
    LET m == n % (2 ^ SizeBits)
    IN  IF m >= 2 ^ (SizeBits - 1) THEN m - 2 ^ SizeBits ELSE m

increaseAvailable(buf, additional) ==
    makeRoom([buf EXCEPT !.available = ToSsize(@ + additional),
                         !.remaining = ToSsize(@ - additional)])

\* ------------------------------------------------------------------- Init
InitTmpl ==
    [p \in Paths |->
        CASE p = "/t" -> File({"S_IFREG", "S_IRUSR", "S_IWUSR", "S_IRGRP", "S_IWGRP", "S_IROTH"},
                              <<TagK>>)
          [] p = "/b" -> File({"S_IFREG", "S_IRUSR", "S_IWUSR", "S_IRGRP", "S_IROTH"},
                              <<Lit(1), TagBad>>)
          [] p = "/e" -> File({"S_IFREG", "S_IRUSR", "S_IWUSR", "S_IXUSR", "S_IRGRP",
                               "S_IXGRP", "S_IROTH", "S_IXOTH"}, <<Lit(3)>>)
          [] p = "/d" -> File({"S_IFDIR", "S_IRUSR", "S_IWUSR", "S_IXUSR", "S_IRGRP",
                               "S_IXGRP", "S_IROTH", "S_IXOTH"}, <<>>)
          [] OTHER -> NoFile]

InitLower ==
    [p \in Paths |->
        IF p = "/d"
        THEN File({"S_IFDIR", "S_IRUSR", "S_IWUSR", "S_IXUSR"}, <<>>)
        ELSE File({"S_IFREG", "S_IRUSR", "S_IWUSR", "S_IRGRP", "S_IWGRP"}, <<3>>)]

InitRoot ==
    [p \in Paths |->
        IF p = "/e" THEN File({"S_IFREG", "S_IRUSR", "S_IWUSR"}, <<0>>) ELSE NoFile]

NoExec ==
    [phase |-> "idle", tok |-> NoTok, child |-> "none", status |-> 0,
     outPipe |-> <<>>, errPipe |-> <<>>, outOpen |-> FALSE, errOpen |-> FALSE,
     childOut |-> <<>>, childErr |-> <<>>,
     stdoutBuf |-> newElasticBuffer(0, 0), stderrBuf |-> newElasticBuffer(0, 0),
     streamEOF |-> FALSE, waits |-> 0]

Init ==
    /\ tmplTree = InitTmpl
    /\ lower = InitLower
    /\ rootfs = InitRoot
    /\ store = <<5, 6>>
    /\ handles = [h \in Tok |-> NoHandle]
    /\ tokens = [t \in Tok |-> NULL]
    /\ tokSt = [t \in Tok |-> "fresh"]
    /\ fds = [f \in Tok |-> NoFd]
    /\ ex = NoExec
    /\ last = NoLast
    /\ AuxInit

\* ------------------------------------------------------------ the render
\* mustach_wrap_mem on the mapped template: the expansion, or mustach's
\* error with *buffer = NULL and *size = 0
RECURSIVE Expand(_, _)
Expand(tpl, value) ==
    IF tpl = <<>> THEN <<>>
    ELSE (IF Head(tpl).kind = "lit" THEN <<Head(tpl).v>> ELSE value)
         \o Expand(Tail(tpl), value)

mustach_wrap_mem(tpl, value) ==
    IF \E i \in 1 .. Len(tpl) : tpl[i].kind = "bad"
    THEN [result |-> MUSTACH_ERROR_UNEXPECTED_END, contents |-> NullBuf, length |-> 0,
          ok |-> FALSE]
    ELSE [result |-> 0, contents |-> Buf(Expand(tpl, value)),
          length |-> Len(Expand(tpl, value)), ok |-> TRUE]

\* fault: the call that fails in this run, if any
initElektra(fault) ==
    IF fault = "kdbOpen" THEN -EFAULT
    ELSE IF fault = "ksNew" THEN -EADDRNOTAVAIL
    ELSE 0

\* faulty variant: a rendering that is there already is handed out again
processTemplate_ReusesCache(file, contents, length, fault) ==
    IF \E h \in DOMAIN handles : handles[h].alloc /\ ~handles[h].contents.null
    THEN LET h == CHOOSE h \in DOMAIN handles :
                      handles[h].alloc /\ ~handles[h].contents.null
         IN  [result |-> 0, contents |-> handles[h].contents,
              length |-> handles[h].length, ok |-> TRUE]
    ELSE mustach_wrap_mem(file.data, store)

\* processTemplate( fd, &fh->contents, &fh->length ): the result and what
\* *buffer and *size hold afterwards (contents and length are their values
\* before the call), and whether the expansion ran to success; file is the
\* file that fd refers to
processTemplate(file, contents, length, fault) ==
    IF fault = "ctx"
    THEN [result |-> -ENOMEM, contents |-> contents, length |-> length, ok |-> FALSE]
    ELSE IF ~file.exists
    THEN [result |-> fixupResult(-1, EBADF), contents |-> contents, length |-> length,
          ok |-> FALSE]
    ELSE IF initElektra(fault) = 0
    THEN mustach_wrap_mem(file.data, store)
    \* result still holds fstat's 0: initElektra's error is not kept
    ELSE [result |-> 0, contents |-> contents, length |-> length, ok |-> FALSE]

\* ------------------------------------------------------------------- open
\* what the kernel's lookup (getattr) of path found
Visible(path) == IF hasTemplate(path) THEN tmplTree[path] ELSE lower[path]

\* the calls of an open of path that may fail
OpenFaults(path) ==
    {"none", "calloc", "openat"}
    \cup (IF hasTemplate(path) /\ ~isExecutable(path) THEN {"ctx", "kdbOpen", "ksNew"} ELSE {})
    \cup (IF hasTemplate(path) /\ isExecutable(path) THEN {"pipe", "fork"} ELSE {})

\* openat( rootfd, &path[1], fi->flags ): the new descriptor, or -errno
openat(tree, path, fd, fault) ==
    IF fault = "openat" THEN fixupResult(-1, EMFILE)
    ELSE IF ~(IF tree = "templates" THEN tmplTree[path] ELSE lower[path]).exists
    THEN fixupResult(-1, ENOENT)
    ELSE fd

\* rootfd of openFileOp: getTemplateFD() for a template, else getMountpointFD()
rootfd(isTemplate) == IF isTemplate THEN "templates" ELSE "lower"

\* the state a finished openFileOp leaves, result being what it returns
OpenReturns(tok, path, result, fault) ==
    /\ tokSt' = [tokSt EXCEPT ![tok] = IF result = 0 THEN "open" ELSE "failed"]
    /\ last' = [Ret("open", tok, path, result) EXCEPT !.fault = fault]

\* executeTemplate up to the fork: the pipes, the fork, and in the parent
\* the two elastic buffers of the drain loop
ExecForked(tok) ==
    [NoExec EXCEPT !.phase = "drain", !.tok = tok, !.child = "forked",
                   !.outOpen = TRUE, !.errOpen = TRUE,
                   !.stdoutBuf = newElasticBuffer(kBufSize, kHeadroom),
                   !.stderrBuf = newElasticBuffer(kBufSize, kHeadroom)]

OpenFileOp(tok, path, fault) ==
    /\ UNCHANGED aux
    /\ ex.phase = "idle"
    /\ tokSt[tok] = "fresh"
    \* the kernel's fuse_file_info objects are numbered in the order of use
    /\ \A t \in Tok : t < tok => tokSt[t] # "fresh"
    /\ Visible(path).exists /\ "S_IFDIR" \notin Visible(path).mode
    /\ fault \in OpenFaults(path)
    /\ UNCHANGED <<tmplTree, lower, rootfs, store>>
    /\ IF getFileHandle(tok) = NULL /\ fault = "calloc"
       THEN /\ OpenReturns(tok, path, -ENOMEM, fault)
            /\ UNCHANGED <<handles, tokens, fds, ex>>
       ELSE LET h == tok
                tree == rootfd(hasTemplate(path))
                fh == [ZeroHandle EXCEPT !.type = "isFile", !.path = path,
                                         !.isTemplate = hasTemplate(path),
                                         !.isExecutable = isExecutable(path)]
                fd == openat(tree, path, tok, fault)
            IN  /\ tokens' = [tokens EXCEPT ![tok] = h]
                /\ IF fd < 0
                   THEN /\ handles' = [handles EXCEPT ![h] = fh]
                        /\ OpenReturns(tok, path, fd, fault)
                        /\ UNCHANGED <<fds, ex>>
                   ELSE /\ fds' = [fds EXCEPT ![fd] =
                                     [open |-> TRUE, tree |-> tree, path |-> path,
                                      closes |-> 0]]
                        /\ IF ~fh.isTemplate
                           THEN /\ handles' = [handles EXCEPT ![h] = [fh EXCEPT !.fd = fd]]
                                /\ OpenReturns(tok, path, 0, fault)
                                /\ UNCHANGED ex
                           ELSE IF ~fh.isExecutable
                           THEN LET r == processTemplate(tmplTree[path], fh.contents, fh.length, fault)
                                IN  /\ handles' = [handles EXCEPT ![h] =
                                          [fh EXCEPT !.fd = fd, !.contents = r.contents,
                                                     !.length = r.length,
                                                     !.cached = ~r.contents.null,
                                                     !.rendered =
                                                        IF r.ok THEN "ok" ELSE "failed"]]
                                    /\ OpenReturns(tok, path, r.result, fault)
                                    /\ UNCHANGED ex
                           ELSE /\ handles' = [handles EXCEPT ![h] =
                                      [fh EXCEPT !.fd = fd,
                                                 !.rendered =
                                                    IF fault \in {"pipe", "fork"}
                                                    THEN "failed" ELSE "no"]]
                                /\ IF fault = "pipe"
                                   THEN OpenReturns(tok, path, fixupResult(-1, EMFILE), fault) /\ UNCHANGED ex
                                   ELSE IF fault = "fork"
                                   THEN OpenReturns(tok, path, fixupResult(-1, EAGAIN), fault) /\ UNCHANGED ex
                                   ELSE /\ ex' = ExecForked(tok)
                                        /\ tokSt' = [tokSt EXCEPT ![tok] = "opening"]
                                        /\ last' = [Ret("open", tok, path, 0) EXCEPT
                                                       !.fault = "blocked"]

\* ------------------------------------------------- the child of the fork
\* the child: dup2 of the write ends, the two fprintf, then execve; stderr
\* is unbuffered, so its banner reaches the pipe whether execve succeeds
\* or not.  A child whose execve failed leaves the switch and lives on with
\* both write ends open.
ChildExec(ok) ==
    /\ UNCHANGED aux
    /\ ex.phase = "drain" /\ ex.child = "forked"
    /\ ex' = [ex EXCEPT !.child = IF ok THEN "running" ELSE "escaped",
                        !.errPipe = @ \o ChildStderrBanner,
                        !.childErr = @ \o ChildStderrBanner]
    /\ UNCHANGED <<tmplTree, lower, rootfs, store, handles, tokens, tokSt, fds, last>>

ChildWriteOut ==
    /\ UNCHANGED aux
    /\ ex.phase = "drain" /\ ex.child = "running" /\ ex.outOpen
    /\ Len(ex.childOut) < MaxChildOut
    /\ LET b == OutByte(Len(ex.childOut) + 1)
       IN  ex' = [ex EXCEPT !.outPipe = Append(@, b), !.childOut = Append(@, b)]
    /\ UNCHANGED <<tmplTree, lower, rootfs, store, handles, tokens, tokSt, fds, last>>

ChildWriteErr ==
    /\ UNCHANGED aux
    /\ ex.phase = "drain" /\ ex.child = "running" /\ ex.errOpen
    /\ Len(ex.childErr) < Len(ChildStderrBanner) + MaxChildErr
    /\ LET b == ErrByte(Len(ex.childErr))
       IN  ex' = [ex EXCEPT !.errPipe = Append(@, b), !.childErr = Append(@, b)]
    /\ UNCHANGED <<tmplTree, lower, rootfs, store, handles, tokens, tokSt, fds, last>>

\* the child closes every descriptor it holds on a stream
ChildCloseOut ==
    /\ UNCHANGED aux
    /\ ex.phase = "drain" /\ ex.child = "running" /\ ex.outOpen
    /\ ex' = [ex EXCEPT !.outOpen = FALSE]
    /\ UNCHANGED <<tmplTree, lower, rootfs, store, handles, tokens, tokSt, fds, last>>

ChildCloseErr ==
    /\ UNCHANGED aux
    /\ ex.phase = "drain" /\ ex.child = "running" /\ ex.errOpen
    /\ ex' = [ex EXCEPT !.errOpen = FALSE]
    /\ UNCHANGED <<tmplTree, lower, rootfs, store, handles, tokens, tokSt, fds, last>>

\* exit( code ): the raw wait status is code << 8
ChildExit(code) ==
    /\ UNCHANGED aux
    /\ ex.phase = "drain" /\ ex.child = "running"
    /\ ex' = [ex EXCEPT !.child = "exited", !.status = code * 256,
                        !.outOpen = FALSE, !.errOpen = FALSE]
    /\ UNCHANGED <<tmplTree, lower, rootfs, store, handles, tokens, tokSt, fds, last>>

\* ---------------------------------------------------------- the drain loop
\* what epoll reports for a pipe's read end: EPOLLIN while it holds bytes,
\* EPOLLHUP once no write end is open
PipeEvent(e, fd) ==
    [fd |-> fd,
     in |-> (IF fd = "out" THEN e.outPipe ELSE e.errPipe) # <<>>,
     hup |-> ~(IF fd = "out" THEN e.outOpen ELSE e.errOpen)]

\* epoll_wait( epfd, events, 2, 10000 ): the ready descriptors, in the order
\* given; none when the wait times out
epoll_wait(e, order) ==
    SelectSeq(<<PipeEvent(e, order[1]), PipeEvent(e, order[2])>>,
              LAMBDA v : v.in \/ v.hup)

\* read( eventFD, getSpacePtr( stderrBuf ), makeRoom( stderrBuf ) ) and
\* increaseAvailable( stderrBuf, readSize )
ReadEvent(e, eventFD) ==
    LET pipe == IF eventFD = "out" THEN e.outPipe ELSE e.errPipe
        room == makeRoom(e.stderrBuf)
        readSize == Min(Len(pipe), room.remaining)
        filled == [room EXCEPT !.data = @ \o SubSeq(pipe, 1, readSize)]
        rest == SubSeq(pipe, readSize + 1, Len(pipe))
    IN  [e EXCEPT !.stderrBuf = increaseAvailable(filled, readSize),
                  !.outPipe = IF eventFD = "out" THEN rest ELSE @,
                  !.errPipe = IF eventFD = "err" THEN rest ELSE @]

\* a loop body that reads but takes no notice of EPOLLHUP and EPOLLERR
RECURSIVE DrainEvents_IgnoresHup(_, _)
DrainEvents_IgnoresHup(e, events) ==
    IF events = <<>> THEN e
    ELSE DrainEvents_IgnoresHup(IF Head(events).in THEN ReadEvent(e, Head(events).fd) ELSE e,
                                Tail(events))

\* the body of the for loop over the reported events
RECURSIVE DrainEvents(_, _)
DrainEvents(e, events) ==
    IF events = <<>> THEN e
    ELSE LET ev == Head(events)
             e1 == IF ev.in THEN ReadEvent(e, ev.fd) ELSE e
             e2 == IF ev.hup THEN [e1 EXCEPT !.streamEOF = TRUE] ELSE e1
         IN  DrainEvents(e2, Tail(events))

\* one pass of do { ... } while ( !streamEOF )
DrainIteration(order) ==
    /\ UNCHANGED aux
    /\ ex.phase = "drain" /\ ~ex.streamEOF
    /\ ex' = DrainEvents(ex, epoll_wait(ex, order))
    /\ UNCHANGED <<tmplTree, lower, rootfs, store, handles, tokens, tokSt, fds, last>>

\* a pass that takes a wait without events for the end of the streams
DrainNoEvents_GivesUp(e, eventCount) ==
    [e EXCEPT !.waits = @ + 1, !.streamEOF = TRUE]

\* a pass in which epoll_wait returned 0 (the 10 s went by) or -1: the for
\* loop does not run; waits counts these passes
DrainNoEvents(e, eventCount) ==
    [DrainEvents(e, << >>) EXCEPT !.waits = @ + 1]

\* epoll_wait returns 0 only while no descriptor is ready, -1 (a signal) at
\* any time
EpollTimeout(eventCount) ==
    /\ UNCHANGED aux
    /\ ex.phase = "drain" /\ ~ex.streamEOF
    /\ ex.waits < MaxWaits
    /\ eventCount = 0 => epoll_wait(ex, <<"out", "err">>) = << >>
    /\ ex' = DrainNoEvents(ex, eventCount)
    /\ UNCHANGED <<tmplTree, lower, rootfs, store, handles, tokens, tokSt, fds, last>>

\* faulty variant: the status waitpid stored is dropped
waitpid_IgnoresStatus(status, waitFails) ==
    IF waitFails THEN fixupResult(-1, ECHILD) ELSE 0

\* waitpid( pid, &result, 0 ): result holds the raw wait status, or -errno
waitpid(status, waitFails) == IF waitFails THEN fixupResult(-1, ECHILD) ELSE status

\* executeTemplate after the loop, and the return of openFileOp: waitpid
\* blocks until the child has exited, or fails
ExecReturn(waitFails) ==
    /\ UNCHANGED aux
    /\ ex.phase = "drain" /\ ex.streamEOF
    /\ waitFails \/ ex.child = "exited"
    /\ LET h == tokens[ex.tok]
           result == waitpid(ex.status, waitFails)
       IN  /\ handles' = [handles EXCEPT ![h] =
                 [@ EXCEPT !.contents = Buf(ex.stdoutBuf.data),
                           !.length = ex.stdoutBuf.available,
                           !.cached = TRUE,
                           !.rendered = IF result = 0 THEN "ok" ELSE "failed"]]
           /\ tokSt' = [tokSt EXCEPT ![ex.tok] = IF result = 0 THEN "open" ELSE "failed"]
           /\ last' = [Ret("open", ex.tok, handles[h].path, result) EXCEPT
                          !.log = IF ex.stderrBuf.available > 0
                                  THEN ex.stderrBuf.data ELSE <<>>,
                          !.childOut = ex.childOut,
                          !.waits = ex.waits,
                          !.fault = IF waitFails THEN "waitpid" ELSE "none"]
    /\ ex' = NoExec
    /\ UNCHANGED <<tmplTree, lower, rootfs, store, tokens, fds>>

\* ------------------------------------------------------- faulty variants
\* getFileAttrOp that clears the write bits only
getFileAttrOp_KeepsExecBits(path, fi) ==
    LET fh == getFileHandle(fi)
        isTemplate == IF fh = NULL THEN hasTemplate(path) ELSE handles[fh].isTemplate
        file == IF fh = NULL
                THEN (IF isTemplate THEN tmplTree[path] ELSE lower[path])
                ELSE FdFile(handles[fh].fd)
        st_mode == IF file.exists THEN file.mode ELSE {}
        st_size == IF file.exists THEN Len(file.data) ELSE 0
    IN  [result |-> IF file.exists THEN 0
                    ELSE fixupResult(-1, IF fh = NULL THEN ENOENT ELSE EBADF),
         mode |-> IF isTemplate THEN st_mode \ WriteBits ELSE st_mode,
         size |-> IF isTemplate /\ fh # NULL /\ ~handles[fh].contents.null
                  THEN handles[fh].length ELSE st_size]

\* getFileAttrOp that reports the size of the template file itself
getFileAttrOp_StatSize(path, fi) ==
    LET fh == getFileHandle(fi)
        isTemplate == IF fh = NULL THEN hasTemplate(path) ELSE handles[fh].isTemplate
        file == IF fh = NULL
                THEN (IF isTemplate THEN tmplTree[path] ELSE lower[path])
                ELSE FdFile(handles[fh].fd)
        st_mode == IF file.exists THEN file.mode ELSE {}
        mask == WriteBits \cup (IF "S_IFDIR" \notin st_mode THEN ExecBits ELSE {})
    IN  [result |-> IF file.exists THEN 0
                    ELSE fixupResult(-1, IF fh = NULL THEN ENOENT ELSE EBADF),
         mode |-> IF isTemplate THEN st_mode \ mask ELSE st_mode,
         size |-> IF file.exists THEN Len(file.data) ELSE 0]

\* truncateFileOp without the isTemplate test
truncateFileOp_NoTemplateTest(path, size, fi) ==
    IF fi = NoTok
    THEN IF rootfs[path].exists
         THEN [result |-> fixupResult(0, 0), writes |-> "root",
               data |-> Resize(rootfs[path].data, size)]
         ELSE [result |-> fixupResult(-1, ENOENT), writes |-> "none", data |-> <<>>]
    ELSE LET fh == getFileHandle(fi)
         IN  IF fh = NULL THEN [result |-> -EINVAL, writes |-> "none", data |-> <<>>]
             ELSE IF ~FdValid(handles[fh].fd)
             THEN [result |-> fixupResult(-1, EBADF), writes |-> "none", data |-> <<>>]
             ELSE [result |-> fixupResult(0, 0), writes |-> "fd",
                   data |-> Resize(FdFile(handles[fh].fd).data, size)]

\* releaseHandle that frees the storage and leaves fi->fh as it was
releaseHandle_KeepsToken(fi) ==
    IF tokens[fi] # NULL THEN [frees |-> TRUE, fh |-> tokens[fi]]
    ELSE [frees |-> FALSE, fh |-> tokens[fi]]

\* ---------------------------------------------------------------- getattr
\* what the callback returns and leaves in *stbuf (libfuse zeroes it first)
getFileAttrOp(path, fi) ==
    LET fh == getFileHandle(fi)
        isTemplate == IF fh = NULL THEN hasTemplate(path) ELSE handles[fh].isTemplate
        file == IF fh = NULL
                THEN (IF isTemplate THEN tmplTree[path] ELSE lower[path])
                ELSE FdFile(handles[fh].fd)
        result == IF file.exists THEN 0
                  ELSE fixupResult(-1, IF fh = NULL THEN ENOENT ELSE EBADF)
        st_mode == IF file.exists THEN file.mode ELSE {}
        st_size == IF file.exists THEN Len(file.data) ELSE 0
        mask == WriteBits \cup (IF "S_IFDIR" \notin st_mode THEN ExecBits ELSE {})
    IN  [result |-> result,
         mode |-> IF isTemplate THEN st_mode \ mask ELSE st_mode,
         size |-> IF isTemplate /\ fh # NULL /\ ~handles[fh].contents.null
                  THEN handles[fh].length ELSE st_size]

\* the fuse_file_info objects the kernel may pass: those of its open files
OpenTok == {t \in DOMAIN tokSt : tokSt[t] = "open"}

\* the path the kernel passes along with a fuse_file_info
PathOf(tok) == handles[tokens[tok]].path

GetFileAttrOp(path, fi) ==
    /\ UNCHANGED aux
    /\ ex.phase = "idle"
    /\ fi # NoTok => fi \in OpenTok /\ path = PathOf(fi)
    /\ LET r == getFileAttrOp(path, fi)
       IN  last' = [Ret("getattr", fi, path, r.result) EXCEPT !.mode = r.mode,
                                                               !.size = r.size]
    /\ UNCHANGED <<tmplTree, lower, rootfs, store, handles, tokens, tokSt, fds, ex>>

\* ------------------------------------------------------------------- read
\* the result and the bytes copied into buf
readFileOp(fi, size, offset) ==
    LET fh == getFileHandle(fi)
    IN  IF fh = NULL THEN [result |-> -ENFILE, data |-> <<>>]
        ELSE IF handles[fh].isTemplate
        THEN IF handles[fh].contents.null \/ offset >= handles[fh].length
             THEN [result |-> -EOF, data |-> <<>>]
             ELSE LET n == IF offset + size > handles[fh].length
                           THEN handles[fh].length - offset ELSE size
                  IN  [result |-> n, data |-> Slice(handles[fh].contents.bytes, offset, n)]
        ELSE IF ~FdValid(handles[fh].fd)
        THEN [result |-> fixupResult(-1, EBADF), data |-> <<>>]
        ELSE LET got == Slice(FdFile(handles[fh].fd).data, offset, size)
             IN  [result |-> fixupResult(Len(got), 0), data |-> got]

ReadFileOp(fi, size, offset) ==
    /\ UNCHANGED aux
    /\ ex.phase = "idle"
    /\ fi \in OpenTok
    /\ LET r == readFileOp(fi, size, offset)
       IN  last' = [Ret("read", fi, PathOf(fi), r.result) EXCEPT !.data = r.data]
    /\ UNCHANGED <<tmplTree, lower, rootfs, store, handles, tokens, tokSt, fds, ex>>

\* ------------------------------------------------------- write, truncate
\* the trees after the file behind descriptor fd got the contents data
FdStore(fd, data) ==
    /\ tmplTree' = IF fds[fd].tree = "templates"
                   THEN [tmplTree EXCEPT ![fds[fd].path].data = data] ELSE tmplTree
    /\ lower' = IF fds[fd].tree = "lower"
                THEN [lower EXCEPT ![fds[fd].path].data = data] ELSE lower

\* the result, whether a file is written, and its contents afterwards
writeFileOp(fi, buf, offset) ==
    LET fh == getFileHandle(fi)
    IN  IF fh = NULL THEN [result |-> -ENFILE, writes |-> FALSE, data |-> <<>>]
        ELSE IF handles[fh].isTemplate
        THEN [result |-> -EPERM, writes |-> FALSE, data |-> <<>>]
        ELSE IF ~FdValid(handles[fh].fd)
        THEN [result |-> fixupResult(-1, EBADF), writes |-> FALSE, data |-> <<>>]
        ELSE [result |-> fixupResult(Len(buf), 0), writes |-> TRUE,
              data |-> Overlay(FdFile(handles[fh].fd).data, offset, buf)]

WriteFileOp(fi, buf, offset) ==
    /\ UNCHANGED aux
    /\ ex.phase = "idle"
    /\ fi \in OpenTok
    /\ LET r == writeFileOp(fi, buf, offset)
       IN  /\ IF r.writes THEN FdStore(handles[getFileHandle(fi)].fd, r.data)
              ELSE UNCHANGED <<tmplTree, lower>>
           /\ last' = Ret("write", fi, PathOf(fi), r.result)
    /\ UNCHANGED <<rootfs, store, handles, tokens, tokSt, fds, ex>>

\* the result, the file that is resized ("root": path, resolved by the
\* process itself; "fd": the handle's descriptor) and its contents afterwards
truncateFileOp(path, size, fi) ==
    IF fi = NoTok
    THEN IF rootfs[path].exists
         THEN [result |-> fixupResult(0, 0), writes |-> "root",
               data |-> Resize(rootfs[path].data, size)]
         ELSE [result |-> fixupResult(-1, ENOENT), writes |-> "none", data |-> <<>>]
    ELSE LET fh == getFileHandle(fi)
         IN  IF fh = NULL THEN [result |-> -EINVAL, writes |-> "none", data |-> <<>>]
             ELSE IF handles[fh].isTemplate
             THEN [result |-> -EPERM, writes |-> "none", data |-> <<>>]
             ELSE IF ~FdValid(handles[fh].fd)
             THEN [result |-> fixupResult(-1, EBADF), writes |-> "none", data |-> <<>>]
             ELSE [result |-> fixupResult(0, 0), writes |-> "fd",
                   data |-> Resize(FdFile(handles[fh].fd).data, size)]

TruncateFileOp(path, size, fi) ==
    /\ UNCHANGED aux
    /\ ex.phase = "idle"
    /\ fi # NoTok => fi \in OpenTok /\ path = PathOf(fi)
    /\ LET r == truncateFileOp(path, size, fi)
       IN  /\ IF r.writes = "fd" THEN FdStore(handles[getFileHandle(fi)].fd, r.data)
              ELSE UNCHANGED <<tmplTree, lower>>
           /\ rootfs' = IF r.writes = "root"
                        THEN [rootfs EXCEPT ![path].data = r.data] ELSE rootfs
           /\ last' = Ret("truncate", fi, path, r.result)
    /\ UNCHANGED <<store, handles, tokens, tokSt, fds, ex>>

\* ----------------------------------------------------------- flush, lseek
\* close( dup( fh->fd ) ) on a pass-through handle
flushFileOp(fi) ==
    LET fh == getFileHandle(fi)
    IN  IF fh = NULL THEN -ENFILE
        ELSE IF handles[fh].isTemplate THEN 0
        ELSE IF FdValid(handles[fh].fd) THEN fixupResult(0, 0)
        ELSE fixupResult(-1, EBADF)

FlushFileOp(fi) ==
    /\ UNCHANGED aux
    /\ ex.phase = "idle"
    /\ fi \in OpenTok
    /\ last' = Ret("flush", fi, PathOf(fi), flushFileOp(fi))
    /\ UNCHANGED <<tmplTree, lower, rootfs, store, handles, tokens, tokSt, fds, ex>>

\* faulty variant: lseek on the descriptor of any file handle
lseekFileOp_NoTemplateTest(off, fi) ==
    LET fh == getFileHandle(fi)
    IN  IF fh # NULL
        THEN (IF FdValid(handles[fh].fd) THEN fixupResult(off, 0)
              ELSE fixupResult(-1, EBADF))
        ELSE -ENFILE

\* lseek( fh->fd, off, SEEK_SET ) on a pass-through handle
lseekFileOp(off, fi) ==
    LET fh == getFileHandle(fi)
    IN  IF fh # NULL /\ ~handles[fh].isTemplate
        THEN (IF FdValid(handles[fh].fd) THEN fixupResult(off, 0)
              ELSE fixupResult(-1, EBADF))
        ELSE -ENFILE

LseekFileOp(off, fi) ==
    /\ UNCHANGED aux
    /\ ex.phase = "idle"
    /\ fi \in OpenTok
    /\ last' = Ret("lseek", fi, PathOf(fi), lseekFileOp(off, fi))
    /\ UNCHANGED <<tmplTree, lower, rootfs, store, handles, tokens, tokSt, fds, ex>>

\* ---------------------------------------------------------------- release
\* releaseHandle( fi ): whether the handle storage is freed, and fi->fh after
releaseHandle(fi) ==
    IF tokens[fi] # NULL THEN [frees |-> TRUE, fh |-> NULL]
    ELSE [frees |-> FALSE, fh |-> tokens[fi]]

\* the result, the descriptor closed and the buffers freed, in the order of
\* the calls
releaseFileOp(fi) ==
    LET fh == getFileHandle(fi)
    IN  IF fh = NULL
        THEN [result |-> -ENFILE, closes |-> FALSE, freesCache |-> FALSE,
              frees |-> FALSE, fh |-> tokens[fi], log |-> <<>>]
        ELSE [result |-> IF FdValid(handles[fh].fd) THEN fixupResult(0, 0)
                         ELSE fixupResult(-1, EBADF),
              closes |-> TRUE,
              freesCache |-> ~handles[fh].contents.null,
              frees |-> releaseHandle(fi).frees,
              fh |-> releaseHandle(fi).fh,
              log |-> <<"close">>
                      \o (IF ~handles[fh].contents.null THEN <<"free contents">> ELSE <<>>)
                      \o (IF releaseHandle(fi).frees THEN <<"free handle">> ELSE <<>>)]

\* the kernel sends release once per open that succeeded; a release that
\* comes again finds fi as the first one left it
ReleaseFileOp(fi) ==
    /\ UNCHANGED aux
    /\ ex.phase = "idle"
    /\ tokSt[fi] \in {"open", "released"}
    /\ LET r == releaseFileOp(fi)
           fh == getFileHandle(fi)
           fd == IF fh = NULL THEN 0 ELSE handles[fh].fd
       IN  /\ fds' = IF r.closes /\ fd \in DOMAIN fds
                     THEN [fds EXCEPT ![fd] = [@ EXCEPT !.open = FALSE,
                                                        !.closes = @ + 1]]
                     ELSE fds
           /\ handles' = IF fh = NULL THEN handles
                         ELSE [handles EXCEPT ![fh] =
                                 [@ EXCEPT !.contents = NullBuf, !.length = 0,
                                           !.cacheFrees = @ + (IF r.freesCache THEN 1 ELSE 0),
                                           !.frees = @ + (IF r.frees THEN 1 ELSE 0),
                                           !.alloc = IF r.frees THEN FALSE ELSE @]]
           /\ tokens' = [tokens EXCEPT ![fi] = r.fh]
           /\ last' = [Ret("release", fi, IF fh = NULL THEN "" ELSE handles[fh].path,
                           r.result) EXCEPT !.log = r.log]
    /\ tokSt' = [tokSt EXCEPT ![fi] = "released"]
    /\ UNCHANGED <<tmplTree, lower, rootfs, store, ex>>

\* ------------------------------------------------- create, the directories
\* getDirHandle( fi )
getDirHandle(fi) ==
    IF fi # NoTok /\ tokens[fi] # NULL /\ handles[tokens[fi]].type = "isDirectory"
    THEN tokens[fi] ELSE NULL

\* the directories the kernel has open
OpenDirTok == {t \in DOMAIN tokSt : tokSt[t] = "opendir"}

\* the state a finished createFileOp or openDirOp leaves
Opened(op, tok, path, result, fault, st) ==
    /\ tokSt' = [tokSt EXCEPT ![tok] = IF result = 0 THEN st ELSE "failed"]
    /\ last' = [Ret(op, tok, path, result) EXCEPT !.fault = fault]

\* createFileOp: openat( getMountpointFD(), &path[1], fi->flags, mode ) with
\* O_CREAT makes the file when it is missing; the handle is published and 0
\* returned whatever openat returned
CreateFileOp(tok, path, mode, fault) ==
    /\ UNCHANGED aux
    /\ ex.phase = "idle"
    /\ tokSt[tok] = "fresh"
    /\ \A t \in DOMAIN tokSt : t < tok => tokSt[t] # "fresh"
    /\ ~hasTemplate(path) /\ "S_IFDIR" \notin lower[path].mode
    /\ fault \in {"none", "calloc", "openat"}
    /\ UNCHANGED <<tmplTree, rootfs, store, ex>>
    /\ IF fault = "calloc"
       THEN /\ Opened("create", tok, path, -ENOMEM, fault, "open")
            /\ UNCHANGED <<lower, handles, tokens, fds>>
       ELSE LET h == tok
                fd == IF fault = "openat" THEN fixupResult(-1, EMFILE) ELSE tok
                fh == [ZeroHandle EXCEPT !.type = "isFile"]
            IN  /\ tokens' = [tokens EXCEPT ![tok] = h]
                /\ Opened("create", tok, path, 0, fault, "open")
                /\ IF fd >= 0
                   THEN /\ handles' = [handles EXCEPT ![h] =
                                         [fh EXCEPT !.path = path, !.fd = fd]]
                        /\ fds' = [fds EXCEPT ![fd] =
                                     [open |-> TRUE, tree |-> "lower", path |-> path,
                                      closes |-> 0]]
                        /\ lower' = IF lower[path].exists THEN lower
                                    ELSE [lower EXCEPT ![path] =
                                            File({"S_IFREG"} \cup mode, <<>>)]
                   ELSE /\ handles' = [handles EXCEPT ![h] = fh]
                        /\ UNCHANGED <<lower, fds>>

\* openDirOp on a directory other than "/": malloc, openat, fdopendir
OpenDirOp(tok, path, fault) ==
    /\ UNCHANGED aux
    /\ ex.phase = "idle"
    /\ tokSt[tok] = "fresh"
    /\ \A t \in DOMAIN tokSt : t < tok => tokSt[t] # "fresh"
    /\ "S_IFDIR" \in lower[path].mode
    /\ fault \in {"none", "malloc", "openat", "fdopendir"}
    /\ UNCHANGED <<tmplTree, lower, rootfs, store, ex>>
    /\ CASE fault = "malloc" ->
              /\ Opened("opendir", tok, path, -ENOMEM, fault, "opendir")
              /\ UNCHANGED <<handles, tokens, fds>>
         [] fault = "openat" ->
              \* dh stays allocated; the token is not set
              /\ Opened("opendir", tok, path, fixupResult(-1, EMFILE), fault, "opendir")
              /\ handles' = [handles EXCEPT ![tok] = [ZeroHandle EXCEPT !.path = path]]
              /\ UNCHANGED <<tokens, fds>>
         [] fault = "fdopendir" ->
              \* free( dh ); the descriptor stays open
              /\ Opened("opendir", tok, path, fixupResult(-1, ENOMEM), fault, "opendir")
              /\ fds' = [fds EXCEPT ![tok] =
                           [open |-> TRUE, tree |-> "lower", path |-> path, closes |-> 0]]
              /\ UNCHANGED <<handles, tokens>>
         [] OTHER ->
              /\ Opened("opendir", tok, path, 0, fault, "opendir")
              /\ fds' = [fds EXCEPT ![tok] =
                           [open |-> TRUE, tree |-> "lower", path |-> path, closes |-> 0]]
              /\ handles' = [handles EXCEPT ![tok] =
                               [ZeroHandle EXCEPT !.type = "isDirectory", !.path = path,
                                                  !.fd = tok]]
              /\ tokens' = [tokens EXCEPT ![tok] = tok]

\* readDirOp: the result, and whether the directory stream is read
readDirOp(fi) ==
    IF getDirHandle(fi) = NULL THEN [result |-> -ENOTDIR, reads |-> FALSE]
    ELSE [result |-> 0, reads |-> TRUE]

\* the request may come with any token
ReadDirOp(fi) ==
    /\ UNCHANGED aux
    /\ ex.phase = "idle"
    /\ LET r == readDirOp(fi)
       IN  last' = [Ret("readdir", fi, "", r.result) EXCEPT
                       !.target = IF r.reads
                                  THEN <<"lower", handles[getDirHandle(fi)].path>>
                                  ELSE <<>>]
    /\ UNCHANGED <<tmplTree, lower, rootfs, store, handles, tokens, tokSt, fds, ex>>

\* releaseDirOp: closedir, then releaseHandle
ReleaseDirOp(fi) ==
    /\ UNCHANGED aux
    /\ ex.phase = "idle"
    /\ fi \in OpenDirTok
    /\ LET dh == getDirHandle(fi)
       IN  /\ fds' = IF dh # NULL
                     THEN [fds EXCEPT ![handles[dh].fd] =
                             [@ EXCEPT !.open = FALSE, !.closes = @ + 1]]
                     ELSE fds
           /\ handles' = IF releaseHandle(fi).frees
                         THEN [handles EXCEPT ![tokens[fi]] =
                                 [@ EXCEPT !.alloc = FALSE, !.frees = @ + 1]]
                         ELSE handles
           /\ tokens' = [tokens EXCEPT ![fi] = releaseHandle(fi).fh]
           /\ last' = Ret("releasedir", fi, "", 0)
    /\ tokSt' = [tokSt EXCEPT ![fi] = "released"]
    /\ UNCHANGED <<tmplTree, lower, rootfs, store, ex>>

\* ---------------------------------- chmod, chown, fsync, flock, statfs
\* the file a system call on descriptor fd acts on, as <<tree, path>>
FdTarget(fd) == IF FdValid(fd) THEN <<fds[fd].tree, fds[fd].path>> ELSE <<>>

\* chmodFileOp and chownFileOp: fchmod/fchown( fh->fd ) with a file handle,
\* fchmodat/fchownat( getMountpointFD(), &path[1] ) without; the result and
\* the file that is changed
chmodFileOp(path, fi) ==
    LET fh == getFileHandle(fi)
    IN  IF fh # NULL
        THEN [result |-> IF FdValid(handles[fh].fd) THEN fixupResult(0, 0)
                         ELSE fixupResult(-1, EBADF),
              target |-> FdTarget(handles[fh].fd)]
        ELSE IF lower[path].exists
        THEN [result |-> fixupResult(0, 0), target |-> <<"lower", path>>]
        ELSE [result |-> fixupResult(-1, ENOENT), target |-> <<>>]

chownFileOp(path, fi) == chmodFileOp(path, fi)

\* the file at target, and the trees after it was replaced by file
TargetFile(target) ==
    IF target = <<>> THEN NoFile
    ELSE IF target[1] = "templates" THEN tmplTree[target[2]]
    ELSE lower[target[2]]

StoreAttr(target, file) ==
    /\ tmplTree' = IF target # <<>> /\ target[1] = "templates"
                   THEN [tmplTree EXCEPT ![target[2]] = file] ELSE tmplTree
    /\ lower' = IF target # <<>> /\ target[1] = "lower"
                THEN [lower EXCEPT ![target[2]] = file] ELSE lower

ChmodFileOp(path, mode, fi) ==
    /\ UNCHANGED aux
    /\ ex.phase = "idle"
    /\ IF fi = NoTok THEN Visible(path).exists ELSE fi \in OpenTok /\ path = PathOf(fi)
    /\ LET r == chmodFileOp(path, fi)
       IN  /\ StoreAttr(r.target,
                        [TargetFile(r.target) EXCEPT
                            !.mode = (@ \cap {"S_IFREG", "S_IFDIR"}) \cup mode])
           /\ last' = [Ret("chmod", fi, path, r.result) EXCEPT !.target = r.target]
    /\ UNCHANGED <<rootfs, store, handles, tokens, tokSt, fds, ex>>

ChownFileOp(path, uid, fi) ==
    /\ UNCHANGED aux
    /\ ex.phase = "idle"
    /\ IF fi = NoTok THEN Visible(path).exists ELSE fi \in OpenTok /\ path = PathOf(fi)
    /\ LET r == chownFileOp(path, fi)
       IN  /\ StoreAttr(r.target, [TargetFile(r.target) EXCEPT !.owner = uid])
           /\ last' = [Ret("chown", fi, path, r.result) EXCEPT !.target = r.target]
    /\ UNCHANGED <<rootfs, store, handles, tokens, tokSt, fds, ex>>

\* fsyncFileOp and flockFileOp: fsync/flock( fh->fd ) with a file handle
fsyncFileOp(fi) ==
    LET fh == getFileHandle(fi)
    IN  IF fh = NULL THEN [result |-> -ENFILE, target |-> <<>>]
        ELSE [result |-> IF FdValid(handles[fh].fd) THEN fixupResult(0, 0)
                         ELSE fixupResult(-1, EBADF),
              target |-> FdTarget(handles[fh].fd)]

flockFileOp(fi) == fsyncFileOp(fi)

FsyncFileOp(fi) ==
    /\ UNCHANGED aux
    /\ ex.phase = "idle"
    /\ fi \in OpenTok
    /\ last' = [Ret("fsync", fi, PathOf(fi), fsyncFileOp(fi).result) EXCEPT
                   !.target = fsyncFileOp(fi).target]
    /\ UNCHANGED <<tmplTree, lower, rootfs, store, handles, tokens, tokSt, fds, ex>>

FlockFileOp(fi) ==
    /\ UNCHANGED aux
    /\ ex.phase = "idle"
    /\ fi \in OpenTok
    /\ last' = [Ret("flock", fi, PathOf(fi), flockFileOp(fi).result) EXCEPT
                   !.target = flockFileOp(fi).target]
    /\ UNCHANGED <<tmplTree, lower, rootfs, store, handles, tokens, tokSt, fds, ex>>

\* getFsStatsOp: statvfs( path, stbuf ), path resolved by the process itself
getFsStatsOp(path) ==
    IF rootfs[path].exists
    THEN [result |-> fixupResult(0, 0), target |-> <<"root", path>>]
    ELSE [result |-> fixupResult(-1, ENOENT), target |-> <<>>]

GetFsStatsOp(path) ==
    /\ UNCHANGED aux
    /\ ex.phase = "idle"
    /\ Visible(path).exists
    /\ last' = [Ret("statfs", NoTok, path, getFsStatsOp(path).result) EXCEPT
                   !.target = getFsStatsOp(path).target]
    /\ UNCHANGED <<tmplTree, lower, rootfs, store, handles, tokens, tokSt, fds, ex>>

\* a file operation that comes with a token that holds no file handle: each
\* of these handlers leaves through its fh == NULL branch
FileOps == {"read", "write", "flush", "release", "fsync", "flock", "lseek"}

ResultWithoutHandle(op, fi) ==
    CASE op = "read" -> readFileOp(fi, 1, 0).result
      [] op = "write" -> writeFileOp(fi, <<0>>, 0).result
      [] op = "flush" -> flushFileOp(fi)
      [] op = "release" -> releaseFileOp(fi).result
      [] op = "fsync" -> fsyncFileOp(fi).result
      [] op = "flock" -> flockFileOp(fi).result
      [] OTHER -> lseekFileOp(0, fi)

CallWithoutFileHandle(op, fi) ==
    /\ UNCHANGED aux
    /\ ex.phase = "idle"
    /\ getFileHandle(fi) = NULL
    /\ last' = Ret(op, fi, "", ResultWithoutHandle(op, fi))
    /\ UNCHANGED <<tmplTree, lower, rootfs, store, handles, tokens, tokSt, fds, ex>>

\* ------------------------------------------------------------ environment
\* a template is installed in the template tree while the filesystem is
\* mounted
AddedTemplate ==
    File({"S_IFREG", "S_IRUSR", "S_IWUSR", "S_IRGRP", "S_IROTH"}, <<Lit(2)>>)

EnvAddTemplate(path) ==
    /\ UNCHANGED aux
    /\ ~tmplTree[path].exists
    /\ tmplTree' = [tmplTree EXCEPT ![path] = AddedTemplate]
    /\ UNCHANGED <<lower, rootfs, store, handles, tokens, tokSt, fds, ex, last>>

\* ------------------------------------------------------------------- Next
Sizes == 1 .. MaxRead
Offsets == 0 .. MaxRead
WriteBufs == {<<3>>}

Next ==
    \/ \E tok \in Tok, path \in Paths, fault \in {"none", "calloc", "openat", "ctx", "kdbOpen", "ksNew", "pipe", "fork"} :
          OpenFileOp(tok, path, fault)
    \/ \E ok \in BOOLEAN : ChildExec(ok)
    \/ ChildWriteOut
    \/ ChildWriteErr
    \/ ChildCloseOut
    \/ ChildCloseErr
    \/ \E code \in {0, 1} : ChildExit(code)
    \/ \E order \in {<<"out", "err">>, <<"err", "out">>} : DrainIteration(order)
    \/ \E waitFails \in BOOLEAN : ExecReturn(waitFails)
    \/ \E path \in Paths, fi \in Tok \cup {NoTok} : GetFileAttrOp(path, fi)
    \/ \E fi \in Tok, size \in Sizes, offset \in Offsets : ReadFileOp(fi, size, offset)
    \/ \E fi \in Tok, buf \in WriteBufs, offset \in 0 .. MaxFileLen - 1 :
          WriteFileOp(fi, buf, offset)
    \/ \E path \in Paths, size \in 0 .. MaxFileLen, fi \in Tok \cup {NoTok} :
          TruncateFileOp(path, size, fi)
    \/ \E fi \in Tok : FlushFileOp(fi)
    \/ \E fi \in Tok, off \in {0, MaxFileLen} : LseekFileOp(off, fi)
    \/ \E fi \in Tok : ReleaseFileOp(fi)
    \/ \E path \in Paths : EnvAddTemplate(path)

Spec == Init /\ [][Next]_vars

\* ------------------------------------------------- the waits of the drain
\* one open of the executable template, with waits that report no event
NextDrain ==
    \/ OpenFileOp(1, "/e", "none")
    \/ \E ok \in BOOLEAN : ChildExec(ok)
    \/ ChildWriteOut
    \/ ChildWriteErr
    \/ ChildCloseOut
    \/ ChildCloseErr
    \/ \E code \in {0, 1} : ChildExit(code)
    \/ \E order \in {<<"out", "err">>, <<"err", "out">>} : DrainIteration(order)
    \/ \E eventCount \in {0, -1} : EpollTimeout(eventCount)
    \/ \E waitFails \in BOOLEAN : ExecReturn(waitFails)

SpecDrain == Init /\ [][NextDrain]_vars

\* the same with the thread of the open running: a pass of the loop comes
\* back from epoll_wait after 10 s at most, and waitpid returns once the
\* child has exited
SpecDrainLive ==
    /\ Init
    /\ [][NextDrain]_vars
    /\ WF_vars(\E order \in {<<"out", "err">>, <<"err", "out">>} : DrainIteration(order))
    /\ WF_vars(ExecReturn(FALSE))

\* ------------------------------------- two opens on two threads of the loop
\* fuse_loop_mt runs openFileOp on several threads.  In executeTemplate the
\* pipes, epfd, the buffers, streamEOF, eventCount and i are automatic
\* variables of the call; events is static, one array for all the calls.
\* Here ex holds that array and, for each thread, the variables of its
\* call: where it is, its child, the bytes waiting in its stdout pipe and
\* those it has read, and whether it handled an event of a descriptor that
\* is not one of its pipes.
Threads == {1, 2}

stdoutPipe(t) == 10 * t + 1
stderrPipe(t) == 10 * t + 2

NoEvent == [fd |-> 0, events |-> {}]

NoCall == [pc |-> "idle", child |-> "none", written |-> 0, pipe |-> 0, got |-> 0,
           eventCount |-> 0, i |-> 0, streamEOF |-> FALSE, foreign |-> FALSE]

InitThreads ==
    /\ tmplTree = InitTmpl /\ lower = InitLower /\ rootfs = InitRoot
    /\ store = <<5, 6>>
    /\ handles = [h \in Tok |-> NoHandle]
    /\ tokens = [t \in Tok |-> NULL]
    /\ tokSt = [t \in Tok |-> "fresh"]
    /\ fds = [f \in Tok |-> NoFd]
    /\ last = NoLast
    /\ AuxInit
    /\ ex = [events |-> <<NoEvent, NoEvent>>, th |-> [t \in Threads |-> NoCall],
             overlap |-> FALSE]

OthersUnchanged ==
    /\ UNCHANGED <<tmplTree, lower, rootfs, store, handles, tokens, tokSt, fds, last>>
    /\ UNCHANGED aux

Active(c) == c.pc \notin {"idle", "done"}

\* the events the kernel has for the epoll set of thread t, in the order
\* the descriptors were added
ReadyEvents(t) ==
    LET c == ex.th[t]
        out == (IF c.pipe > 0 THEN {"EPOLLIN"} ELSE {})
                  \cup (IF c.child = "exited" THEN {"EPOLLHUP"} ELSE {})
        err == IF c.child = "exited" THEN {"EPOLLHUP"} ELSE {}
    IN  (IF out # {} THEN <<[fd |-> stdoutPipe(t), events |-> out]>> ELSE << >>)
           \o (IF err # {} THEN <<[fd |-> stderrPipe(t), events |-> err]>> ELSE << >>)

\* pipe, pipe, fork; the parent fills events[0] and events[1] for epoll_ctl
ExecuteTemplate(t) ==
    /\ ex.th[t].pc = "idle"
    /\ ex' = [ex EXCEPT
           !.events = <<[fd |-> stdoutPipe(t), events |-> {"EPOLLIN"}],
                        [fd |-> stderrPipe(t), events |-> {"EPOLLIN"}]>>,
           !.th[t] = [NoCall EXCEPT !.pc = "wait", !.child = "running"],
           !.overlap = @ \/ \E u \in Threads \ {t} : Active(ex.th[u])]
    /\ OthersUnchanged

\* the child of thread t writes a byte to its standard output
ThreadChildWrite(t) ==
    /\ ex.th[t].child = "running"
    /\ ex.th[t].written < MaxChildOut
    /\ ex' = [ex EXCEPT !.th[t].written = @ + 1, !.th[t].pipe = @ + 1]
    /\ OthersUnchanged

\* the child of thread t exits: the write ends of its pipes are closed
ThreadChildExit(t) ==
    /\ ex.th[t].child = "running"
    /\ ex' = [ex EXCEPT !.th[t].child = "exited"]
    /\ OthersUnchanged

\* epoll_wait( epfd, events, 2, 10000 ) returns the count of the events it
\* stored at the start of the static array
EpollWait(t) ==
    /\ ex.th[t].pc = "wait"
    /\ ReadyEvents(t) # << >>
    /\ LET ready == ReadyEvents(t)
       IN  ex' = [ex EXCEPT
               !.events = [k \in 1 .. 2 |-> IF k <= Len(ready) THEN ready[k] ELSE @[k]],
               !.th[t].pc = "handle",
               !.th[t].eventCount = Len(ready),
               !.th[t].i = 0]
    /\ OthersUnchanged

\* one pass of the for loop: events[ i ] is read from the static array.  A
\* read of a pipe takes all the bytes that wait in it (0 at the end of the
\* stream) and blocks while the pipe is empty and the child runs
HandleEvent(t) ==
    LET c == ex.th[t]
        e == ex.events[c.i + 1]
        own == e.fd \in {stdoutPipe(t), stderrPipe(t)}
        reads == "EPOLLIN" \in e.events /\ e.fd = stdoutPipe(t)
        eof == c.streamEOF \/ e.events \cap {"EPOLLHUP", "EPOLLERR"} # {}
        last_i == c.i + 1 = c.eventCount
    IN  /\ c.pc = "handle"
        /\ c.i < c.eventCount
        /\ reads /\ c.pipe = 0 => c.child = "exited"
        /\ ex' = [ex EXCEPT
               !.th[t].got = IF reads THEN @ + c.pipe ELSE @,
               !.th[t].pipe = IF reads THEN 0 ELSE @,
               !.th[t].foreign = @ \/ ~own,
               !.th[t].streamEOF = eof,
               !.th[t].i = @ + 1,
               !.th[t].pc = IF ~last_i THEN "handle"
                            ELSE IF eof THEN "reap" ELSE "wait"]
        /\ OthersUnchanged

\* waitpid( pid, &result, 0 ) returns once the child has exited
Waitpid(t) ==
    /\ ex.th[t].pc = "reap"
    /\ ex.th[t].child = "exited"
    /\ ex' = [ex EXCEPT !.th[t].pc = "done"]
    /\ OthersUnchanged

NextThreads ==
    \/ \E t \in Threads : ExecuteTemplate(t)
    \/ \E t \in Threads : ThreadChildWrite(t)
    \/ \E t \in Threads : ThreadChildExit(t)
    \/ \E t \in Threads : EpollWait(t)
    \/ \E t \in Threads : HandleEvent(t)
    \/ \E t \in Threads : Waitpid(t)

SpecThreads == InitThreads /\ [][NextThreads]_vars

\* ------------------------------------------- the operations that never fork
\* create, the directory callbacks and the callbacks on attributes, beside
\* open and release; the lower file /n is missing until it is created
ChmodModes == {{"S_IRUSR"}}
Uids == {1}
OpsPaths == {"/n", "/t", "/d"}

InitOps ==
    /\ tmplTree = InitTmpl
    /\ lower = [InitLower EXCEPT !["/n"] = NoFile]
    /\ rootfs = InitRoot
    /\ store = <<5, 6>>
    /\ handles = [h \in Tok |-> NoHandle]
    /\ tokens = [t \in Tok |-> NULL]
    /\ tokSt = [t \in Tok |-> "fresh"]
    /\ fds = [f \in Tok |-> NoFd]
    /\ ex = NoExec
    /\ last = NoLast
    /\ AuxInit

NextOps ==
    \/ \E tok \in Tok, path \in OpsPaths, fault \in {"none", "openat"} :
          OpenFileOp(tok, path, fault)
    \/ \E tok \in Tok, path \in OpsPaths, mode \in ChmodModes, fault \in {"none", "calloc", "openat"} :
          CreateFileOp(tok, path, mode, fault)
    \/ \E tok \in Tok, path \in OpsPaths, fault \in {"none", "malloc", "openat", "fdopendir"} :
          OpenDirOp(tok, path, fault)
    \/ \E fi \in Tok : ReadDirOp(fi)
    \/ \E fi \in Tok : ReleaseDirOp(fi)
    \/ \E path \in OpsPaths, size \in {0}, fi \in Tok \cup {NoTok} :
          TruncateFileOp(path, size, fi)
    \/ \E path \in OpsPaths, mode \in ChmodModes, fi \in Tok \cup {NoTok} :
          ChmodFileOp(path, mode, fi)
    \/ \E path \in OpsPaths, uid \in Uids, fi \in Tok \cup {NoTok} : ChownFileOp(path, uid, fi)
    \/ \E fi \in Tok : FsyncFileOp(fi)
    \/ \E fi \in Tok : FlockFileOp(fi)
    \/ \E path \in Paths : GetFsStatsOp(path)
    \/ \E fi \in Tok : ReleaseFileOp(fi)
    \/ \E op \in FileOps, fi \in Tok : CallWithoutFileHandle(op, fi)

SpecOps == InitOps /\ [][NextOps]_vars

\* ------------------------------------------ several opens of a template
\* the key database is changed by another process while the filesystem is
\* mounted; kdbGet reads it at each call of initElektra
StoreValues == {<<5, 6>>, <<7>>}

EnvStoreChange(value) ==
    /\ UNCHANGED aux
    /\ store # value
    /\ store' = value
    /\ UNCHANGED <<tmplTree, lower, rootfs, handles, tokens, tokSt, fds, ex, last>>

\* one fuse_file_info more than in the other specifications, so that two
\* files are open at a time
ShareTok == 1 .. MaxOpens + 1
SharePaths == {"/t", "/n"}

InitShare ==
    /\ tmplTree = InitTmpl
    /\ lower = InitLower
    /\ rootfs = InitRoot
    /\ store \in StoreValues
    /\ handles = [h \in ShareTok |-> NoHandle]
    /\ tokens = [t \in ShareTok |-> NULL]
    /\ tokSt = [t \in ShareTok |-> "fresh"]
    /\ fds = [f \in ShareTok |-> NoFd]
    /\ ex = NoExec
    /\ last = NoLast
    /\ AuxInit

NextShare ==
    \/ \E tok \in ShareTok, path \in SharePaths : OpenFileOp(tok, path, "none")
    \/ \E fi \in ShareTok, size \in Sizes, offset \in Offsets : ReadFileOp(fi, size, offset)
    \/ \E fi \in ShareTok : ReleaseFileOp(fi)
    \/ \E value \in StoreValues : EnvStoreChange(value)

SpecShare == InitShare /\ [][NextShare]_vars

\* ------------------------------------------------ the directory stream
\* a directory of the lower tree with n entries, in the order readdir gives
\* them; the d_name of the i-th entry
d_name(i) == 100 + i

\* readdir( dp ) at stream position pos: the entry (NULL at the end) and the
\* position afterwards; telldir( dp ) is the position, seekdir sets it
readdir(pos, n) ==
    IF pos < n THEN [entry |-> d_name(pos + 1), dp |-> pos + 1]
    ELSE [entry |-> NULL, dp |-> pos]

telldir(pos) == pos

seekdir(pos, offset) == offset

\* faulty variant: the entry the filler refused is not kept
RECURSIVE readDirLoop_DropsRefused(_, _, _, _)
readDirLoop_DropsRefused(dh, n, room, out) ==
    LET got == readdir(dh.dp, n)
        nextoff == telldir(got.dp)
    IN  IF got.entry = NULL
        THEN [dh |-> dh, out |-> out, full |-> FALSE]
        ELSE IF room = 0
        THEN [dh |-> [dh EXCEPT !.dp = got.dp], out |-> out, full |-> TRUE]
        ELSE readDirLoop_DropsRefused([dp |-> got.dp, entry |-> NULL, offset |-> nextoff],
                                      n, room - 1,
                                      Append(out, [name |-> got.entry, off |-> nextoff]))

\* the do { } while ( 1 ) of readDirOp; the filler takes room entries and
\* returns 1 for the one after; out is what it took, each with its offset
RECURSIVE readDirLoop(_, _, _, _)
readDirLoop(dh, n, room, out) ==
    LET got == IF dh.entry = NULL THEN readdir(dh.dp, n)
               ELSE [entry |-> dh.entry, dp |-> dh.dp]
        nextoff == telldir(got.dp)
    IN  IF got.entry = NULL
        THEN [dh |-> dh, out |-> out, full |-> FALSE]
        ELSE IF room = 0
        THEN [dh |-> [dh EXCEPT !.entry = got.entry, !.dp = got.dp], out |-> out,
              full |-> TRUE]
        ELSE readDirLoop([dp |-> got.dp, entry |-> NULL, offset |-> nextoff],
                         n, room - 1, Append(out, [name |-> got.entry, off |-> nextoff]))

\* readDirOp on a directory handle, from the test of offset on
readDirEntries(dh, n, offset, room) ==
    LET at == IF offset # dh.offset
              THEN [dp |-> seekdir(dh.dp, offset), entry |-> NULL, offset |-> offset]
              ELSE dh
    IN  readDirLoop(at, n, room, <<>>)

\* openDirOp has left dp at the start, offset 0 and entry NULL.  stream is
\* what the filler took since the kernel last changed the position, from is
\* the offset it changed to, and next the offset that came with the entry
\* taken last
InitDir ==
    /\ tmplTree = InitTmpl /\ lower = InitLower /\ rootfs = InitRoot
    /\ store = <<5, 6>>
    /\ handles = [h \in Tok |-> NoHandle]
    /\ tokens = [t \in Tok |-> NULL]
    /\ tokSt = [t \in Tok |-> "fresh"]
    /\ fds = [f \in Tok |-> NoFd]
    /\ ex = NoExec /\ last = NoLast
    /\ context = <<>> /\ elastic = <<>> /\ boot = <<>> /\ render = <<>>
    /\ \E n \in 0 .. MaxDirEntries :
          dir = [n |-> n, dh |-> [dp |-> 0, entry |-> NULL, offset |-> 0],
                 stream |-> <<>>, from |-> 0, next |-> 0,
                 calls |-> 0, full |-> FALSE, room |-> 0, moved |-> FALSE]

\* a call of the stream: the offset is the one of the entry taken last
ReadDirNext(room) ==
    /\ LET r == readDirEntries(dir.dh, dir.n, dir.next, room)
       IN  dir' = [dir EXCEPT !.dh = r.dh, !.stream = @ \o r.out,
                              !.next = IF r.out = <<>> THEN @
                                       ELSE r.out[Len(r.out)].off,
                              !.calls = 1, !.full = r.full, !.room = room,
                              !.moved = FALSE]
    /\ UNCHANGED fsvars
    /\ UNCHANGED <<context, elastic, boot, render>>

\* a call after the kernel moved to another offset that it was given before
ReadDirSeek(offset, room) ==
    /\ offset # dir.next
    /\ offset <= dir.n
    /\ LET r == readDirEntries(dir.dh, dir.n, offset, room)
       IN  dir' = [dir EXCEPT !.dh = r.dh, !.stream = r.out, !.from = offset,
                              !.next = IF r.out = <<>> THEN offset
                                       ELSE r.out[Len(r.out)].off,
                              !.calls = 1, !.full = r.full, !.room = room,
                              !.moved = TRUE]
    /\ UNCHANGED fsvars
    /\ UNCHANGED <<context, elastic, boot, render>>

NextDir ==
    \/ \E room \in 0 .. MaxFill : ReadDirNext(room)
    \/ \E offset \in 0 .. MaxDirEntries, room \in 0 .. MaxFill : ReadDirSeek(offset, room)

SpecDir == InitDir /\ [][NextDir]_vars

\* ------------------------------------------ directory handles on "/"
\* openDirOp on "/" duplicates the descriptor of the mount anchor: the
\* duplicates and the anchor's descriptor are one open file description
\* with one position, pos, counted in entries of the root directory (entry
\* i has d_off i).  A stream (DIR) keeps the entries of its last getdents
\* that readdir has not handed out yet in buf.
\* the entries of the root directory, and the readdir calls on one handle
MaxRootEntries == 2
MaxRootReads == 2

RootTok == {1, 2}

NoStream == [st |-> "fresh", buf |-> <<>>, entry |-> NULL, offset |-> 0,
             out |-> <<>>, eof |-> FALSE, seeks |-> 0, calls |-> 0]

\* readdir( dh->dp ): from the buffer, or from a getdents that the kernel
\* answers with at most chunk entries from the position of the description
readdirRoot(stream, pos, n, chunk) ==
    IF stream.buf # <<>>
    THEN [entry |-> Head(stream.buf), buf |-> Tail(stream.buf), pos |-> pos]
    ELSE LET k == Min(chunk, n - pos)
         IN  IF k <= 0 THEN [entry |-> NULL, buf |-> <<>>, pos |-> pos]
             ELSE [entry |-> pos + 1,
                   buf |-> [i \in 1 .. k - 1 |-> pos + 1 + i],
                   pos |-> pos + k]

\* the do { } while ( 1 ) of readDirOp on such a stream
RECURSIVE readRootLoop(_, _, _, _, _)
readRootLoop(stream, pos, n, room, chunk) ==
    LET got == IF stream.entry # NULL
               THEN [entry |-> stream.entry, buf |-> stream.buf, pos |-> pos]
               ELSE readdirRoot(stream, pos, n, chunk)
    IN  IF got.entry = NULL
        THEN [stream |-> [stream EXCEPT !.eof = TRUE], pos |-> got.pos]
        ELSE IF room = 0
        THEN [stream |-> [stream EXCEPT !.entry = got.entry, !.buf = got.buf],
              pos |-> got.pos]
        ELSE readRootLoop([stream EXCEPT !.entry = NULL, !.buf = got.buf,
                                         !.offset = got.entry,
                                         !.out = Append(@, got.entry)],
                          got.pos, n, room - 1, chunk)

\* readDirOp: seekdir (an lseek on the descriptor, the buffer dropped) when
\* the offset is not the handle's, then the loop
readRootDir(stream, pos, n, offset, room, chunk) ==
    IF offset # stream.offset
    THEN readRootLoop([stream EXCEPT !.buf = <<>>, !.entry = NULL, !.offset = offset,
                                     !.out = <<>>, !.eof = FALSE, !.seeks = 1],
                      offset, n, room, chunk)
    ELSE readRootLoop(stream, pos, n, room, chunk)

InitRootDir ==
    /\ tmplTree = [p \in Paths |-> NULL]
    /\ lower = [p \in Paths |-> NULL]
    /\ rootfs = [p \in Paths |-> NULL]
    /\ store = 0
    /\ handles = << >>
    /\ tokens = << >>
    /\ tokSt = << >>
    /\ fds = << >>
    /\ ex = NULL
    /\ last = [op |-> "init"]
    /\ context = << >>
    /\ elastic = << >>
    /\ boot = << >>
    /\ render = << >>
    /\ \E n \in 1 .. MaxRootEntries :
          dir = [n |-> n, pos |-> 0, anchorOpen |-> TRUE,
                 dh |-> [t \in RootTok |-> NoStream],
                 op |-> "init", tok |-> 0]

\* openDirOp( "/", fi ): dup, lseek( fd, 0, SEEK_SET ), fdopendir
OpenRootDir(t) ==
    /\ dir.dh[t].st = "fresh"
    /\ dir' = [dir EXCEPT !.pos = 0,
                          !.dh[t] = [NoStream EXCEPT !.st = "open"],
                          !.op = "opendir", !.tok = t]
    /\ UNCHANGED fsvars
    /\ UNCHANGED <<context, elastic, boot, render>>

\* readDirOp on a handle of "/"
ReadRootDir(t, offset, room, chunk) ==
    /\ dir.dh[t].st = "open"
    /\ dir.dh[t].calls < MaxRootReads
    /\ offset <= dir.n
    /\ LET r == readRootDir(dir.dh[t], dir.pos, dir.n, offset, room, chunk)
       IN  dir' = [dir EXCEPT !.pos = r.pos,
                              !.dh[t] = [r.stream EXCEPT !.calls = @ + 1],
                              !.op = "readdir", !.tok = t]
    /\ UNCHANGED fsvars
    /\ UNCHANGED <<context, elastic, boot, render>>

\* releaseDirOp: closedir closes the duplicate
ReleaseRootDir(t) ==
    /\ dir.dh[t].st = "open"
    /\ dir' = [dir EXCEPT !.dh[t] = [@ EXCEPT !.st = "released", !.buf = <<>>,
                                              !.entry = NULL],
                          !.op = "releasedir", !.tok = t]
    /\ UNCHANGED fsvars
    /\ UNCHANGED <<context, elastic, boot, render>>

NextRootDir ==
    \/ \E t \in RootTok : OpenRootDir(t)
    \/ \E t \in RootTok, offset \in 0 .. MaxRootEntries, room \in 0 .. MaxFill,
          chunk \in 1 .. MaxRootEntries : ReadRootDir(t, offset, room, chunk)
    \/ \E t \in RootTok : ReleaseRootDir(t)

SpecRootDir == InitRootDir /\ [][NextRootDir]_vars

\* ------------------------------------------------- the section stack
\* the key set kdbGet loaded, in its order; a name is the sequence of the
\* parts below system:/config, array marks the meta-attribute `array`
KeySet ==
    << [name |-> <<"a">>, array |-> TRUE],
       [name |-> <<"a", "#0">>, array |-> FALSE],
       [name |-> <<"a", "#0", "b">>, array |-> TRUE],
       [name |-> <<"a", "#0", "b", "#0">>, array |-> FALSE],
       [name |-> <<"a", "#0", "b", "#1">>, array |-> FALSE],
       [name |-> <<"a", "#0", "b", "#1", "n">>, array |-> FALSE],
       [name |-> <<"a", "#1">>, array |-> FALSE],
       [name |-> <<"a", "#1", "n">>, array |-> FALSE],
       [name |-> <<"e">>, array |-> TRUE],
       [name |-> <<"e", "x", "y">>, array |-> FALSE],
       [name |-> <<"k">>, array |-> FALSE] >>

\* a Key *: NULL, a key of the caller (keyNew, keyDup), or a key that the
\* key set holds, whose name cannot be changed
NoKey == [null |-> TRUE, name |-> <<>>, ro |-> FALSE]
Key(name, ro) == [null |-> FALSE, name |-> name, ro |-> ro]
keyDup(key) == IF key.null THEN NoKey ELSE Key(key.name, FALSE)

\* ksSearch / ksLookup: the position of the key of that name, -1 if none;
\* positions count from 0
ksSearch(name) ==
    IF \E i \in 1 .. Len(KeySet) : KeySet[i].name = name
    THEN (CHOOSE i \in 1 .. Len(KeySet) : KeySet[i].name = name) - 1
    ELSE -1

ksLookup(key) ==
    IF key.null \/ ksSearch(key.name) < 0 THEN NoKey ELSE Key(key.name, TRUE)

ksAtCursor(cursor) ==
    IF cursor \in 0 .. Len(KeySet) - 1 THEN Key(KeySet[cursor + 1].name, TRUE) ELSE NoKey

keyIsBelow(key, check) ==
    /\ Len(check.name) > Len(key.name)
    /\ SubSeq(check.name, 1, Len(key.name)) = key.name

keyIsDirectlyBelow(key, check) ==
    keyIsBelow(key, check) /\ Len(check.name) = Len(key.name) + 1

\* keyAddBaseName( key, name ): -1 for NULL and for a key with a read-only
\* name, the key with the part added otherwise
keyAddBaseName(key, name) ==
    IF key.null \/ key.ro THEN [result |-> -1, key |-> key]
    ELSE [result |-> Len(key.name) + 1, key |-> Key(Append(key.name, name), FALSE)]

\* a tSection; seen is history: the elements activated since the section's
\* selection became an array, done whether next has reported the end
NewSection ==
    [selection |-> NoKey, arraySelection |-> NoKey, isArray |-> FALSE, cursor |-> 0,
     depth |-> 0, seen |-> <<>>, done |-> FALSE]

\* a selectNextArrayKey that takes any key below the array for an element
RECURSIVE selectNextArrayKey_AnyBelow(_)
selectNextArrayKey_AnyBelow(section) ==
    IF ~section.isArray THEN [result |-> 0, section |-> section]
    ELSE LET cursor == section.cursor + 1
             key == ksAtCursor(cursor)
         IN  IF ~key.null /\ keyIsBelow(section.arraySelection, key)
             THEN [result |-> 1,
                   section |-> [section EXCEPT !.cursor = cursor, !.selection = key,
                                               !.seen = Append(@, key.name)]]
             ELSE [result |-> 0,
                   section |-> [section EXCEPT !.cursor = cursor, !.done = TRUE]]

\* selectNextArrayKey( section, keySet ): the result and the section after
RECURSIVE selectNextArrayKey(_)
selectNextArrayKey(section) ==
    IF ~section.isArray THEN [result |-> 0, section |-> section]
    ELSE LET cursor == section.cursor + 1
             key == ksAtCursor(cursor)
         IN  IF ~key.null /\ keyIsBelow(section.arraySelection, key)
             THEN IF keyIsDirectlyBelow(section.arraySelection, key)
                  THEN [result |-> 1,
                        section |-> [section EXCEPT !.cursor = cursor, !.selection = key,
                                                    !.seen = Append(@, key.name)]]
                  ELSE selectNextArrayKey([section EXCEPT !.cursor = cursor])
             ELSE [result |-> 0,
                   section |-> [section EXCEPT !.cursor = cursor, !.done = TRUE]]

\* updateSelection( context, section ) for the section on top of the stack
updateSelection(section) ==
    LET found == ksLookup(section.selection)
    IN  IF found.null
        THEN [result |-> 0, section |-> [section EXCEPT !.selection = NoKey]]
        ELSE IF ~KeySet[ksSearch(found.name) + 1].array
        THEN [result |-> 1,
              section |-> [section EXCEPT !.selection = found, !.isArray = FALSE]]
        ELSE selectNextArrayKey(
                 [section EXCEPT !.selection = found, !.isArray = TRUE,
                                 !.arraySelection = keyDup(found),
                                 !.cursor = ksSearch(found.name),
                                 !.seen = <<>>, !.done = FALSE])

\* the names of the tags: a name with a namespace is a key name of its own,
\* any other is a part to add
Absolute == [n \in {"system:/config/k"} |-> <<"k">>]

\* an elektraSel that adds the name to the section's own selection
elektraSel_NoRefresh(stack, name) ==
    LET section == stack[1]
        added == keyAddBaseName(keyDup(section.selection), name)
    IN  IF name \in DOMAIN Absolute
        THEN updateSelection([section EXCEPT !.selection = Key(Absolute[name], FALSE)])
        ELSE IF added.result >= 0
        THEN updateSelection([section EXCEPT !.selection = added.key])
        ELSE [result |-> 0, section |-> section]

\* elektraSel( closure, name ) with a section on the stack: the result and
\* the stack after; stack[1] is context->stack
elektraSel(stack, name) ==
    LET section == stack[1]
    IN  IF name \notin DOMAIN Absolute
        THEN LET refreshed == IF Len(stack) > 1
                              THEN [section EXCEPT !.selection = keyDup(stack[2].selection)]
                              ELSE section
                 added == keyAddBaseName(refreshed.selection, name)
             IN  IF added.result >= 0
                 THEN updateSelection([refreshed EXCEPT !.selection = added.key])
                 ELSE [result |-> 0, section |-> refreshed]
        ELSE updateSelection([section EXCEPT !.selection = Key(Absolute[name], FALSE)])

\* sectionPush( context, objiter ): the result and the stack after
sectionPush_NoCopy(stack, objiter, fault) ==
    IF fault = "calloc" THEN [result |-> -ENOMEM, stack |-> stack]
    ELSE [result |-> 0,
          stack |-> <<[NewSection EXCEPT !.depth = objiter,
                                         !.selection = Key(<<>>, FALSE)]>> \o stack]

sectionPush(stack, objiter, fault) ==
    IF fault = "calloc" THEN [result |-> -ENOMEM, stack |-> stack]
    ELSE IF stack # <<>>
    THEN [result |-> 0,
          stack |-> <<[stack[1] EXCEPT !.depth = objiter,
                                       !.arraySelection = keyDup(@),
                                       !.selection = keyDup(@)]>> \o stack]
    ELSE [result |-> 0,
          stack |-> <<[NewSection EXCEPT !.depth = objiter,
                                         !.selection = Key(<<>>, FALSE)]>>]

\* sectionPop( context ) without the test for an empty stack
sectionPop_NeverTooDeep(stack) ==
    [result |-> 0, stack |-> IF stack = <<>> THEN stack ELSE Tail(stack)]

\* sectionPop( context )
sectionPop(stack) ==
    IF stack = <<>> THEN [result |-> MUSTACH_ERROR_TOO_DEEP, stack |-> stack]
    ELSE [result |-> 0, stack |-> Tail(stack)]

\* the tMustachContext of one render and the engine driving it: frames has
\* one entry for every enter that returned 1 and has not been left, "body"
\* while the section's text is rendered and "end" once next returned 0
\* for it; pushFailed records a sectionPush that allocated nothing
SelNames == {"a", "b", "n", "e", "k", "system:/config/k"}

InitMustach ==
    /\ tmplTree = [p \in Paths |-> NULL]
    /\ lower = [p \in Paths |-> NULL]
    /\ rootfs = [p \in Paths |-> NULL]
    /\ store = 0
    /\ handles = << >>
    /\ tokens = << >>
    /\ tokSt = << >>
    /\ fds = << >>
    /\ ex = NULL
    /\ last = [op |-> "init"]
    /\ dir = << >>
    /\ elastic = << >>
    /\ boot = << >>
    /\ render = << >>
    /\ context = [phase |-> "idle", stack |-> << >>, frames |-> << >>, selected |-> 0,
                  pushFailed |-> FALSE, op |-> "init", result |-> 0, name |-> ""]

\* start: the engine goes on to the template text when it returned 0
ElektraStart(fault) ==
    /\ context.phase = "idle"
    /\ LET pushed == sectionPush(context.stack, -1, fault)
       IN  context' = [context EXCEPT
               !.phase = IF pushed.result = 0 THEN "running" ELSE "failed",
               !.stack = pushed.stack,
               !.pushFailed = (pushed.result # 0),
               !.op = "start", !.result = pushed.result]
    /\ UNCHANGED fsvars
    /\ UNCHANGED <<dir, elastic, boot, render>>

\* a tag of the text: the engine selects its name; with no section on the
\* stack the callback reads through a null pointer
ElektraSel(name) ==
    /\ context.phase = "running"
    /\ IF context.frames = << >> THEN TRUE ELSE Head(context.frames) = "body"
    /\ IF context.stack = << >>
       THEN context' = [context EXCEPT !.phase = "crashed", !.op = "sel", !.name = name]
       ELSE LET sel == elektraSel(context.stack, name)
            IN  context' = [context EXCEPT
                    !.stack = <<sel.section>> \o Tail(context.stack),
                    !.selected = sel.result,
                    !.op = "sel", !.result = sel.result, !.name = name]
    /\ UNCHANGED fsvars
    /\ UNCHANGED <<dir, elastic, boot, render>>

\* a section tag whose name was selected: enter, which returns 1
ElektraEnter(objiter, fault) ==
    /\ context.phase = "running"
    /\ context.op = "sel"
    /\ context.selected = 1
    /\ Len(context.frames) < MaxEnter
    /\ LET pushed == sectionPush(context.stack, objiter, fault)
       IN  context' = [context EXCEPT
               !.stack = pushed.stack,
               !.frames = <<"body">> \o @,
               !.selected = 0,
               !.pushFailed = @ \/ pushed.result # 0,
               !.op = "enter", !.result = 1]
    /\ UNCHANGED fsvars
    /\ UNCHANGED <<dir, elastic, boot, render>>

\* the end of an entered section's text: next
ElektraNext ==
    /\ context.phase = "running"
    /\ context.frames # << >>
    /\ Head(context.frames) = "body"
    /\ LET stack == context.stack
           at == IF Len(stack) > 1 THEN 2 ELSE 1
           nxt == IF stack = << >> THEN [result |-> 0]
                  ELSE selectNextArrayKey(stack[at])
       IN  context' = [context EXCEPT
               !.stack = IF stack = << >> THEN stack ELSE [stack EXCEPT ![at] = nxt.section],
               !.frames = IF nxt.result = 1 THEN @ ELSE <<"end">> \o Tail(@),
               !.selected = 0,
               !.op = "next", !.result = nxt.result]
    /\ UNCHANGED fsvars
    /\ UNCHANGED <<dir, elastic, boot, render>>

\* a dotted tag: subsel, which selects nothing and returns 0
ElektraSubsel(name) ==
    /\ context.phase = "running"
    /\ context.op = "sel"
    /\ context' = [context EXCEPT !.selected = 0, !.op = "subsel", !.result = 0,
                                  !.name = name]
    /\ UNCHANGED fsvars
    /\ UNCHANGED <<dir, elastic, boot, render>>

\* a tag with a value to compare with: compare, which returns 0
ElektraCompare ==
    /\ context.phase = "running"
    /\ context.op = "sel"
    /\ context' = [context EXCEPT !.selected = 0, !.op = "compare", !.result = 0]
    /\ UNCHANGED fsvars
    /\ UNCHANGED <<dir, elastic, boot, render>>

\* a variable tag: get reads the value or the name of the top section's
\* selection into the engine's buffer; with no section it returns 0, with
\* one 1, 0 (nothing copied) or -EINVAL (a binary value of another length)
ElektraGet(result) ==
    /\ context.phase = "running"
    /\ context.op = "sel"
    /\ context.stack = << >> => result = 0
    /\ context' = [context EXCEPT !.selected = 0, !.op = "get", !.result = result]
    /\ UNCHANGED fsvars
    /\ UNCHANGED <<dir, elastic, boot, render>>

\* next returned 0: leave
ElektraLeave ==
    /\ context.phase = "running"
    /\ context.frames # << >>
    /\ Head(context.frames) = "end"
    /\ LET popped == sectionPop(context.stack)
       IN  context' = [context EXCEPT
               !.stack = popped.stack,
               !.frames = Tail(@),
               !.selected = 0,
               !.op = "leave", !.result = popped.result]
    /\ UNCHANGED fsvars
    /\ UNCHANGED <<dir, elastic, boot, render>>

\* the end of the text, every section left, or a start that failed: stop
ElektraStop ==
    /\ context.phase \in {"running", "failed"}
    /\ context.frames = << >>
    /\ context' = [context EXCEPT
           !.phase = "stopped",
           !.stack = sectionPop(context.stack).stack,
           !.op = "stop", !.result = sectionPop(context.stack).result]
    /\ UNCHANGED fsvars
    /\ UNCHANGED <<dir, elastic, boot, render>>

NextMustach ==
    \/ \E fault \in {"none", "calloc"} : ElektraStart(fault)
    \/ \E name \in SelNames : ElektraSel(name)
    \/ \E objiter \in {0, 1}, fault \in {"none", "calloc"} : ElektraEnter(objiter, fault)
    \/ ElektraNext
    \/ ElektraLeave
    \/ ElektraStop
    \/ \E name \in {"b", "n"} : ElektraSubsel(name)
    \/ ElektraCompare
    \/ \E result \in {1, 0, -EINVAL} : ElektraGet(result)

SpecMustach == InitMustach /\ [][NextMustach]_vars

\* ------------------------------------------------------------ startup
\* a tFSTree after setupFSTree( tree, path ) on a zeroed tPrivateData: the
\* path is "dir" (an existing directory that can be opened), "file" (exists,
\* opendir fails) or "missing" (realpath fails); fd 0 is what calloc left,
\* AnchorFd what dirfd returns
AnchorPaths == {"dir", "file", "missing"}
AnchorFd == 3

setupFSTree(path) ==
    IF path = "missing" THEN [result |-> -ENOENT, resolved |-> FALSE, dir |-> FALSE, fd |-> 0]
    ELSE IF path = "file" THEN [result |-> -ENOTDIR, resolved |-> TRUE, dir |-> FALSE, fd |-> -1]
    ELSE [result |-> 0, resolved |-> TRUE, dir |-> TRUE, fd |-> AnchorFd]

\* initPrivateData( mountPath, templatePath ): NULL when calloc fails
initPrivateData(mountPath, templatePath, fault) ==
    IF fault = "calloc" THEN [null |-> TRUE]
    ELSE [null |-> FALSE,
          mountpoint |-> setupFSTree(mountPath),
          templates |-> setupFSTree(templatePath)]

\* main up to the call of lightFuse: the exit code, or go to lightFuse
main(cmd) ==
    IF cmd.libfuse = "old" THEN [go |-> FALSE, result |-> 255, failed |-> "version"]
    ELSE IF cmd.parse = -1 THEN [go |-> FALSE, result |-> 1, failed |-> "fuse_parse_cmdline"]
    ELSE IF cmd.show_version THEN [go |-> FALSE, result |-> 0, failed |-> "none"]
    ELSE IF cmd.show_help THEN [go |-> FALSE, result |-> 0, failed |-> "none"]
    ELSE IF cmd.mountpoint = "absent" THEN [go |-> FALSE, result |-> 2, failed |-> "mountpoint"]
    ELSE IF cmd.tmplParse = -1 THEN [go |-> FALSE, result |-> 8, failed |-> "fuse_opt_parse"]
    ELSE IF cmd.templates = "absent" THEN [go |-> FALSE, result |-> 2, failed |-> "templates"]
    ELSE [go |-> TRUE, result |-> 0, failed |-> "none"]

\* the command line and the installed library; "absent" is an option left
\* NULL; fuse_parse_cmdline resolves the mountpoint itself and fails when it
\* does not exist
CmdLines ==
    [libfuse : {"ok", "old"}, parse : {0, -1}, show_version : BOOLEAN, show_help : BOOLEAN,
     mountpoint : {"absent", "dir", "file"}, tmplParse : {0, -1},
     templates : {"absent"} \cup AnchorPaths]

InitBoot ==
    /\ tmplTree = [p \in Paths |-> NULL]
    /\ lower = [p \in Paths |-> NULL]
    /\ rootfs = [p \in Paths |-> NULL]
    /\ store = 0
    /\ handles = << >>
    /\ tokens = << >>
    /\ tokSt = << >>
    /\ fds = << >>
    /\ ex = NULL
    /\ last = [op |-> "init"]
    /\ dir = << >>
    /\ context = << >>
    /\ elastic = << >>
    /\ render = << >>
    /\ \E cmd \in CmdLines :
           boot = [pc |-> "main", cmd |-> cmd, result |-> 0, failed |-> "none",
                   privateData |-> [null |-> TRUE], fuse |-> "none", ran |-> << >>,
                   mounted |-> FALSE, mounts |-> 0, unmounts |-> 0, handlers |-> FALSE,
                   exit |-> 0, signal |-> 0]

BootStep(pc, next, stage) ==
    [boot EXCEPT !.pc = next, !.ran = Append(@, stage)]

Main ==
    /\ boot.pc = "main"
    /\ boot' = [BootStep("main", IF main(boot.cmd).go THEN "fuse_new" ELSE "return", "main")
                   EXCEPT !.result = main(boot.cmd).result,
                          !.failed = main(boot.cmd).failed]
    /\ UNCHANGED fsvars
    /\ UNCHANGED <<dir, context, elastic, render>>

\* fuse_new( args, &templatefsOperations, ..., initPrivateData( ... ) )
FuseNew(fault, ok) ==
    /\ boot.pc = "fuse_new"
    /\ boot' = [BootStep("fuse_new", IF ok THEN "fuse_mount" ELSE "fuse_destroy", "fuse_new")
                   EXCEPT !.privateData = initPrivateData(boot.cmd.mountpoint,
                                                          boot.cmd.templates, fault),
                          !.fuse = IF ok THEN "session" ELSE "null",
                          !.result = IF ok THEN @ ELSE 3,
                          !.failed = IF ok THEN @ ELSE "fuse_new"]
    /\ UNCHANGED fsvars
    /\ UNCHANGED <<dir, context, elastic, render>>

FuseMount(ok) ==
    /\ boot.pc = "fuse_mount"
    /\ boot' = [BootStep("fuse_mount", IF ok THEN "fuse_daemonize" ELSE "fuse_destroy",
                         "fuse_mount")
                   EXCEPT !.mounted = ok,
                          !.mounts = IF ok THEN @ + 1 ELSE @,
                          !.result = IF ok THEN @ ELSE 4,
                          !.failed = IF ok THEN @ ELSE "fuse_mount"]
    /\ UNCHANGED fsvars
    /\ UNCHANGED <<dir, context, elastic, render>>

FuseDaemonize(ok) ==
    /\ boot.pc = "fuse_daemonize"
    /\ boot' = [BootStep("fuse_daemonize",
                         IF ok THEN "fuse_set_signal_handlers" ELSE "fuse_unmount",
                         "fuse_daemonize")
                   EXCEPT !.result = IF ok THEN @ ELSE 5,
                          !.failed = IF ok THEN @ ELSE "fuse_daemonize"]
    /\ UNCHANGED fsvars
    /\ UNCHANGED <<dir, context, elastic, render>>

FuseSetSignalHandlers(ok) ==
    /\ boot.pc = "fuse_set_signal_handlers"
    /\ boot' = [BootStep("fuse_set_signal_handlers",
                         IF ok THEN "fuse_loop" ELSE "fuse_unmount",
                         "fuse_set_signal_handlers")
                   EXCEPT !.handlers = ok,
                          !.result = IF ok THEN @ ELSE 6,
                          !.failed = IF ok THEN @ ELSE "fuse_set_signal_handlers"]
    /\ UNCHANGED fsvars
    /\ UNCHANGED <<dir, context, elastic, render>>

\* fuse_loop / fuse_loop_mt until the session ends, then
\* fuse_remove_signal_handlers
FuseLoop(returned) ==
    /\ boot.pc = "fuse_loop"
    /\ boot' = [BootStep("fuse_loop", "fuse_unmount", "fuse_loop")
                   EXCEPT !.handlers = FALSE,
                          !.result = IF returned # 0 THEN 7 ELSE returned,
                          !.failed = IF returned # 0 THEN "fuse_loop" ELSE @]
    /\ UNCHANGED fsvars
    /\ UNCHANGED <<dir, context, elastic, render>>

FuseUnmount ==
    /\ boot.pc = "fuse_unmount"
    /\ boot' = [BootStep("fuse_unmount", "fuse_destroy", "fuse_unmount")
                   EXCEPT !.mounted = FALSE, !.unmounts = @ + 1]
    /\ UNCHANGED fsvars
    /\ UNCHANGED <<dir, context, elastic, render>>

\* fuse_destroy( fuse ), also after fuse_new returned NULL: the library
\* reads f->conf through the pointer, so the call with NULL either ends the
\* process by a signal or happens to return
FuseDestroy(outcome) ==
    /\ boot.pc = "fuse_destroy"
    /\ boot.fuse = "null" \/ outcome = "returns"
    /\ boot' = IF outcome = "returns"
               THEN [BootStep("fuse_destroy", "return", "fuse_destroy")
                        EXCEPT !.fuse = IF @ = "session" THEN "destroyed" ELSE @]
               ELSE [BootStep("fuse_destroy", "exited", "fuse_destroy")
                        EXCEPT !.signal = SIGSEGV]
    /\ UNCHANGED fsvars
    /\ UNCHANGED <<dir, context, elastic, render>>

\* return result from main
Return ==
    /\ boot.pc = "return"
    /\ boot' = [boot EXCEPT !.pc = "exited", !.exit = boot.result]
    /\ UNCHANGED fsvars
    /\ UNCHANGED <<dir, context, elastic, render>>

NextBoot ==
    \/ Main
    \/ \E fault \in {"none", "calloc"}, ok \in BOOLEAN : FuseNew(fault, ok)
    \/ \E ok \in BOOLEAN : FuseMount(ok)
    \/ \E ok \in BOOLEAN : FuseDaemonize(ok)
    \/ \E ok \in BOOLEAN : FuseSetSignalHandlers(ok)
    \/ \E returned \in {0, -1, 15} : FuseLoop(returned)
    \/ FuseUnmount
    \/ \E outcome \in {"returns", "SIGSEGV"} : FuseDestroy(outcome)
    \/ Return

SpecBoot == InitBoot /\ [][NextBoot]_vars

\* ----------------------------------------- the resources of one render
\* processTemplate step by step. template is the pointer mmap returned
\* ("NULL" before, "mapped", "MAP_FAILED", "unmapped" after munmap), kdb and
\* keySet the pointers of the context ("NULL", "open" or "live", "closed" or
\* "deleted" once released); the counters are history over all the calls
MaxRenders == 2

\* a cleanupElektra that leaves the store handle open
cleanupElektra_KeepsKdb(r) ==
    [r EXCEPT !.keySet = IF @ = "NULL" THEN @ ELSE "deleted",
              !.ksDels = IF r.keySet = "NULL" THEN @ ELSE @ + 1,
              !.twice = @ \/ r.keySet = "deleted"]

\* cleanupElektra( context )
cleanupElektra(r) ==
    [r EXCEPT !.keySet = IF @ = "NULL" THEN @ ELSE "deleted",
              !.ksDels = IF r.keySet = "NULL" THEN @ ELSE @ + 1,
              !.kdb = IF @ = "NULL" THEN @ ELSE "closed",
              !.kdbCloses = IF r.kdb = "NULL" THEN @ ELSE @ + 1,
              !.twice = @ \/ r.keySet = "deleted" \/ r.kdb = "closed"]

InitRender ==
    /\ tmplTree = [p \in Paths |-> NULL]
    /\ lower = [p \in Paths |-> NULL]
    /\ rootfs = [p \in Paths |-> NULL]
    /\ store = 0
    /\ handles = << >>
    /\ tokens = << >>
    /\ tokSt = << >>
    /\ fds = << >>
    /\ ex = NULL
    /\ last = [op |-> "init"]
    /\ dir = << >>
    /\ context = << >>
    /\ elastic = << >>
    /\ boot = << >>
    /\ render = [pc |-> "idle", calls |-> 0, result |-> 0, st_size |-> 0,
                 template |-> "NULL", kdb |-> "NULL", keySet |-> "NULL",
                 maps |-> 0, unmaps |-> 0, kdbOpens |-> 0, kdbCloses |-> 0,
                 ksNews |-> 0, ksDels |-> 0, twice |-> FALSE, failedAt |-> "none"]

\* the call, and calloc of the context, which zeroes its pointers
CallocContext(fault) ==
    /\ render.pc \in {"idle", "returned"}
    /\ render.calls < MaxRenders
    /\ render' = [render EXCEPT
           !.pc = IF fault = "calloc" THEN "returned" ELSE "fstat",
           !.calls = @ + 1,
           !.result = -ENOMEM,
           !.template = "NULL", !.kdb = "NULL", !.keySet = "NULL",
           !.failedAt = IF fault = "calloc" THEN "calloc" ELSE "none"]
    /\ UNCHANGED fsvars
    /\ UNCHANGED <<dir, context, elastic, boot>>

Fstat(ok, size) ==
    /\ render.pc = "fstat"
    /\ render' = [render EXCEPT
           !.pc = IF ok THEN "mmap" ELSE "free",
           !.result = IF ok THEN 0 ELSE -EBADF,
           !.st_size = IF ok THEN size ELSE @,
           !.failedAt = IF ok THEN @ ELSE "fstat"]
    /\ UNCHANGED fsvars
    /\ UNCHANGED <<dir, context, elastic, boot>>

\* mmap( NULL, st.st_size, ... ): MAP_FAILED for a length of 0 and when the
\* kernel refuses; the code goes on unless the pointer is NULL, which mmap
\* does not return
Mmap(ok) ==
    /\ render.pc = "mmap"
    /\ ok => render.st_size > 0
    /\ render' = [render EXCEPT
           !.pc = "kdbOpen",
           !.template = IF ok THEN "mapped" ELSE "MAP_FAILED",
           !.maps = IF ok THEN @ + 1 ELSE @,
           !.failedAt = IF ok THEN @ ELSE "mmap"]
    /\ UNCHANGED fsvars
    /\ UNCHANGED <<dir, context, elastic, boot>>

\* initElektra: kdbOpen, and cleanupElektra when it failed
KdbOpen(ok) ==
    /\ render.pc = "kdbOpen"
    /\ render' = IF ok
                 THEN [render EXCEPT !.pc = "ksNew", !.kdb = "open", !.kdbOpens = @ + 1]
                 ELSE [cleanupElektra(render) EXCEPT
                          !.pc = "munmap",
                          !.failedAt = IF @ = "none" THEN "kdbOpen" ELSE @]
    /\ UNCHANGED fsvars
    /\ UNCHANGED <<dir, context, elastic, boot>>

\* initElektra: ksNew and kdbGet, or cleanupElektra when ksNew failed
KsNew(ok) ==
    /\ render.pc = "ksNew"
    /\ render' = IF ok
                 THEN [render EXCEPT !.pc = "mustach_wrap_mem", !.keySet = "live",
                                     !.ksNews = @ + 1]
                 ELSE [cleanupElektra(render) EXCEPT
                          !.pc = "munmap",
                          !.failedAt = IF @ = "none" THEN "ksNew" ELSE @]
    /\ UNCHANGED fsvars
    /\ UNCHANGED <<dir, context, elastic, boot>>

\* mustach_wrap_mem reads the template: through MAP_FAILED the read ends the
\* process; otherwise its result is kept and cleanupElektra follows
MustachWrapMem(rc) ==
    /\ render.pc = "mustach_wrap_mem"
    /\ render' = IF render.template = "MAP_FAILED"
                 THEN [render EXCEPT !.pc = "crashed"]
                 ELSE [cleanupElektra(render) EXCEPT
                          !.pc = "munmap",
                          !.result = rc,
                          !.failedAt = IF rc # 0 THEN "mustach_wrap_mem" ELSE @]
    /\ UNCHANGED fsvars
    /\ UNCHANGED <<dir, context, elastic, boot>>

\* munmap( template, st.st_size ): of MAP_FAILED it fails and releases nothing
Munmap ==
    /\ render.pc = "munmap"
    /\ render' = [render EXCEPT
           !.pc = "free",
           !.template = IF @ = "mapped" THEN "unmapped" ELSE @,
           !.unmaps = IF render.template = "mapped" THEN @ + 1 ELSE @,
           !.twice = @ \/ render.template = "unmapped"]
    /\ UNCHANGED fsvars
    /\ UNCHANGED <<dir, context, elastic, boot>>

\* free( context ); return result
FreeContext ==
    /\ render.pc = "free"
    /\ render' = [render EXCEPT !.pc = "returned"]
    /\ UNCHANGED fsvars
    /\ UNCHANGED <<dir, context, elastic, boot>>

NextRender ==
    \/ \E fault \in {"none", "calloc"} : CallocContext(fault)
    \/ \E ok \in BOOLEAN, size \in 0 .. MaxFileLen : Fstat(ok, size)
    \/ \E ok \in BOOLEAN : Mmap(ok)
    \/ \E ok \in BOOLEAN : KdbOpen(ok)
    \/ \E ok \in BOOLEAN : KsNew(ok)
    \/ \E rc \in {0, MUSTACH_ERROR_UNEXPECTED_END} : MustachWrapMem(rc)
    \/ Munmap
    \/ FreeContext

SpecRender == InitRender /\ [][NextRender]_vars

\* ------------------------------------------------ one elastic buffer
\* a buffer of any size and headroom and the calls on it in any order; when
\* calloc of the data fails newElasticBuffer leaves remaining at 0
InitElastic ==
    /\ tmplTree = [p \in Paths |-> NULL]
    /\ lower = [p \in Paths |-> NULL]
    /\ rootfs = [p \in Paths |-> NULL]
    /\ store = 0
    /\ handles = << >>
    /\ tokens = << >>
    /\ tokSt = << >>
    /\ fds = << >>
    /\ ex = NULL
    /\ last = [op |-> "init"]
    /\ dir = << >>
    /\ context = << >>
    /\ boot = << >>
    /\ render = << >>
    /\ \E size \in 0 .. MaxSize, headroom \in 0 .. MaxHeadroom, fault \in {"none", "calloc"} :
           elastic = [buf |-> IF fault = "calloc"
                              THEN [newElasticBuffer(size, headroom) EXCEPT !.remaining = 0]
                              ELSE newElasticBuffer(size, headroom),
                      size |-> size, fault |-> fault,
                      op |-> "newElasticBuffer", additional |-> 0, calls |-> 0]

ElasticCall(op, buf, additional) ==
    [elastic EXCEPT !.buf = buf, !.op = op, !.additional = additional,
                    !.calls = IF @ < 2 THEN @ + 1 ELSE @]

\* getSpacePtr( buf ): makeRoom, then the address behind the bytes in use
GetSpacePtr ==
    /\ elastic' = ElasticCall("getSpacePtr", makeRoom(elastic.buf), 0)
    /\ UNCHANGED fsvars
    /\ UNCHANGED <<dir, context, boot, render>>

\* makeRoom( buf ) called for the size to read
MakeRoom ==
    /\ elastic' = ElasticCall("makeRoom", makeRoom(elastic.buf), 0)
    /\ UNCHANGED fsvars
    /\ UNCHANGED <<dir, context, boot, render>>

\* increaseAvailable( buf, additional ) with a number of bytes that fit
IncreaseAvailable(additional) ==
    /\ additional <= elastic.buf.remaining
    /\ elastic.buf.available + additional <= MaxAvailable
    /\ elastic' = ElasticCall("increaseAvailable",
                              increaseAvailable(elastic.buf, additional), additional)
    /\ UNCHANGED fsvars
    /\ UNCHANGED <<dir, context, boot, render>>

NextElastic ==
    \/ GetSpacePtr
    \/ MakeRoom
    \/ \E additional \in 0 .. MaxAvailable : IncreaseAvailable(additional)

SpecElastic == InitElastic /\ [][NextElastic]_vars

\* ------------------------------------------- the reads of the drain loop
\* the two buffers of one executeTemplate call over the reads of its loop,
\* with what read returns as the input: -1, 0 or a count up to the count
\* asked for.  allocErr is the size of the block stderrBuf->data points
\* to, totalOut and totalErr the bytes that reads have stored in each
\* buffer, before the bytes in use in stderrBuf when the last read began,
\* failed whether a read has returned -1
MaxPipeReads == 3

\* the size given to realloc when makeRoom( buf ) grows the buffer
reallocSize(buf, alloc) ==
    IF buf.remaining < buf.headroom
    THEN ToSize(buf.available + buf.remaining + buf.headroom * 2)
    ELSE alloc

InitReads ==
    /\ tmplTree = [p \in Paths |-> NULL]
    /\ lower = [p \in Paths |-> NULL]
    /\ rootfs = [p \in Paths |-> NULL]
    /\ store = 0
    /\ handles = << >>
    /\ tokens = << >>
    /\ tokSt = << >>
    /\ fds = << >>
    /\ ex = NULL
    /\ last = [op |-> "init"]
    /\ dir = << >>
    /\ context = << >>
    /\ boot = << >>
    /\ render = << >>
    /\ elastic = [stdoutBuf |-> newElasticBuffer(kBufSize, kHeadroom),
                  stderrBuf |-> newElasticBuffer(kBufSize, kHeadroom),
                  allocOut |-> kBufSize, allocErr |-> kBufSize,
                  totalOut |-> 0, totalErr |-> 0,
                  eventFD |-> "none", asked |-> 0, result |-> 0, before |-> 0,
                  failed |-> FALSE, reads |-> 0]

\* the body of if ( buff != NULL ): size_t readSize = read( eventFD,
\* getSpacePtr( stderrBuf ), makeRoom( stderrBuf ) ) and
\* increaseAvailable( stderrBuf, readSize ), for either pipe
ReadPipe(eventFD, result) ==
    LET room == makeRoom(elastic.stderrBuf)
        roomAlloc == reallocSize(elastic.stderrBuf, elastic.allocErr)
        asked == ToSize(room.remaining)
        readSize == ToSize(result)
        moved == [room EXCEPT !.available = ToSsize(@ + readSize),
                              !.remaining = ToSsize(@ - readSize)]
    IN  /\ elastic.reads < MaxPipeReads
        /\ result \in {-1, 0} \cup 1 .. asked
        /\ elastic' = [elastic EXCEPT
               !.stderrBuf = increaseAvailable(room, readSize),
               !.allocErr = reallocSize(moved, roomAlloc),
               !.totalErr = IF result > 0 THEN @ + result ELSE @,
               !.eventFD = eventFD, !.asked = asked, !.result = result,
               !.before = elastic.stderrBuf.available,
               !.failed = @ \/ result = -1,
               !.reads = @ + 1]
        /\ UNCHANGED fsvars
        /\ UNCHANGED <<dir, context, boot, render>>

NextReads ==
    \E eventFD \in {"out", "err"}, result \in {-1, 0, 1, kHeadroom * 2, kBufSize} :
        ReadPipe(eventFD, result)

SpecReads == InitReads /\ [][NextReads]_vars

\* ------------------------------------------------------------- properties
\* the open files whose handle is template-backed
TemplateTok == {t \in OpenTok : handles[tokens[t]].isTemplate}

\* the handle of the open that returned last
LastHandle == handles[tokens[last.tok]]

LastIsOpenOf(exec) ==
    /\ last.op = "open" /\ last.tok # NoTok /\ tokens[last.tok] # NULL
    /\ LastHandle.isTemplate /\ LastHandle.isExecutable = exec

\* C1: in the drain loop the bytes of the child's standard output go to the
\* stdout buffer only and those of its standard error to the stderr buffer
\* only, and when executeTemplate has returned the handle's cache is exactly
\* what the child wrote to standard output, in order.
C1_StdoutIsTheCache ==
    /\ ex.phase = "drain" =>
          /\ ex.stdoutBuf.data \o ex.outPipe = ex.childOut
          /\ ex.stderrBuf.data \o ex.errPipe = ex.childErr
    /\ (LastIsOpenOf(TRUE) /\ last.fault = "none") =>
          /\ LastHandle.contents.bytes = last.childOut
          /\ LastHandle.length = Len(last.childOut)

\* C2: an open of a non-executable template whose render fails returns a
\* negative value: -EFAULT when the configuration store cannot be opened,
\* -EADDRNOTAVAIL when the key set cannot be allocated, and never 0 when the
\* render did not run to success.
C2_RenderFailureFailsOpen ==
    LastIsOpenOf(FALSE) =>
        /\ last.fault = "kdbOpen" => last.result = -EFAULT
        /\ last.fault = "ksNew" => last.result = -EADDRNOTAVAIL
        /\ LastHandle.rendered # "ok" => last.result < 0

\* C3: every template-backed handle whose open returned 0 has a cache that
\* the render filled completely, so that no read finds it absent.
C3_CachePopulated ==
    \A t \in TemplateTok :
        /\ ~handles[tokens[t]].contents.null
        /\ handles[tokens[t]].rendered = "ok"
        /\ handles[tokens[t]].length = Len(handles[tokens[t]].contents.bytes)

\* C4: writeFileOp and truncateFileOp through a handle whose isTemplate flag
\* is set return -EPERM for every size and offset, and change neither a
\* handle nor a file of the template tree, the lower tree or the root.
C4_TemplateHandleRefusesWrites ==
    [][/\ (/\ last'.op = "write" /\ last'.tok \in TemplateTok
            /\ \E buf \in WriteBufs, offset \in 0 .. MaxFileLen :
                  WriteFileOp(last'.tok, buf, offset))
          => /\ last'.result = -EPERM
             /\ UNCHANGED <<handles, tmplTree, lower, rootfs>>
       /\ (/\ last'.op = "truncate" /\ last'.tok \in TemplateTok
            /\ \E size \in 0 .. MaxFileLen :
                  TruncateFileOp(PathOf(last'.tok), size, last'.tok))
          => /\ last'.result = -EPERM
             /\ UNCHANGED <<handles, tmplTree, lower, rootfs>>]_vars

\* a write through a template-backed handle that holds a cache was refused
C4_Witness ==
    /\ last.op = "write" /\ last.tok \in TemplateTok
    /\ ~LastHandle.contents.null
    /\ last.result = -EPERM

\* C5: truncate of a path that has a template entry, in a request without a
\* handle, returns -EPERM and leaves the file of that path as it was.
C5_TruncateByPathRefused ==
    (last.op = "truncate" /\ last.tok = NoTok /\ last.tmpl) =>
        /\ last.result = -EPERM
        /\ rootfs[last.path] = InitRoot[last.path]

\* what getattr is to report for the template entry of path: its mode
\* without the write bits and, unless a directory, without the execute bits
TemplateMode(path) ==
    tmplTree[path].mode
        \ (WriteBits \cup (IF "S_IFDIR" \in tmplTree[path].mode THEN {} ELSE ExecBits))

C7_ReadOfCache ==
    \A t \in TemplateTok, size \in Sizes, offset \in Offsets :
        LET r == readFileOp(t, size, offset)
            L == handles[tokens[t]].length
        IN  IF offset >= L
            THEN r.result < 0 /\ r.data = <<>>
            ELSE /\ r.result = Min(size, L - offset)
                 /\ r.data = SubSeq(handles[tokens[t]].contents.bytes,
                                    offset + 1, offset + r.result)

\* the bytes a reader gets from successive reads of size bytes, each at the
\* offset the one before ended at, until a read delivers nothing
RECURSIVE ReadTotal(_, _, _, _)
ReadTotal(fi, size, offset, fuel) ==
    LET r == readFileOp(fi, size, offset)
    IN  IF fuel = 0 \/ r.data = <<>> THEN 0
        ELSE Len(r.data) + ReadTotal(fi, size, offset + Len(r.data), fuel - 1)

C10_CacheIffRendered ==
    \A h \in Tok :
        handles[h].alloc =>
            (~handles[h].contents.null
                <=> (handles[h].isTemplate /\ handles[h].rendered = "ok"))

\* C11: the descriptor of every open file handle refers to the file at the
\* handle's path, in the template tree when isTemplate is set and in the
\* lower tree otherwise
C11_DescriptorMatchesVariant ==
    \A t \in OpenTok :
        getFileHandle(t) # NULL =>
            LET fh == handles[getFileHandle(t)]
            IN  FdTarget(fh.fd) = <<rootfd(fh.isTemplate), fh.path>>

C13_TruncateByPathPassesThrough ==
    (/\ last.op = "truncate" /\ last.tok = NoTok /\ ~last.tmpl
     /\ lower[last.path].exists /\ "S_IFDIR" \notin lower[last.path].mode) =>
        /\ last.result = 0
        /\ rootfs[last.path] = InitRoot[last.path]

\* C14: when the allocation or the system call under create, open or opendir
\* failed, the callback returns a negated errno and publishes no handle
C14_FailedCallFailsTheOperation ==
    (/\ last.op \in {"create", "open", "opendir"}
     /\ last.fault \in {"calloc", "malloc", "openat", "fdopendir"}) =>
        /\ last.result < 0
        /\ tokens[last.tok] = NULL

\* C15: an operation that resolves a path resolves it from the mount point
\* (or the template directory), never from the root or the working
\* directory of the process; so statfs of a path that is there under the
\* mount succeeds, on a file of the lower or the template tree
C15_StatfsResolvedFromTheAnchor ==
    last.op = "statfs" =>
        /\ last.result = 0
        /\ last.target # <<>>
        /\ last.target[1] \in {"lower", "templates"}

\* C16: chmod, chown, fsync and flock act on the file of the lower tree, also
\* through a handle that was opened on a path with a template; the callbacks
\* leave the template tree as it was
C16_TemplateTreeUntouched ==
    /\ (last.op \in {"chmod", "chown", "fsync", "flock"} /\ last.target # <<>>) =>
           last.target = <<"lower", last.path>>
    /\ tmplTree = InitTmpl

\* C17: the open of an executable template returns 0 exactly when the child
\* was reaped with status 0; a status other than 0 is returned as waitpid
\* stored it; when waitpid fails the open returns -errno; when fork fails it
\* returns -errno and the drain loop never runs
C17_ExecOpenResult ==
    [][/\ (ex.phase = "drain" /\ ex'.phase = "idle") =>
              /\ last'.op = "open" /\ last'.tok = ex.tok
              /\ last'.fault = "waitpid" => last'.result = -ECHILD
              /\ last'.fault # "waitpid" =>
                    ex.child = "exited" /\ last'.result = ex.status
              /\ last'.result = 0 <=>
                    (last'.fault # "waitpid" /\ ex.child = "exited" /\ ex.status = 0)
       /\ (last'.op = "open" /\ last'.fault = "fork") =>
              /\ last'.result = -EAGAIN
              /\ ex.phase = "idle" /\ ex'.phase = "idle"
      ]_vars

\* an executable template was opened, its child exited with a status other
\* than 0 and the open returned that status
C17_Witness ==
    /\ last.op = "open" /\ last.fault = "none"
    /\ last.tok # NoTok /\ tokens[last.tok] # NULL
    /\ handles[tokens[last.tok]].isExecutable
    /\ last.result = 256

\* C18: a child whose execve failed exits with a status other than 0; it
\* never leaves the switch of executeTemplate to return into openFileOp
C18_ChildNeverReturns ==
    ex.child # "escaped"

\* C19: the drain loop of executeTemplate ends only when the write end of the
\* standard-output pipe is closed and the pipe holds no unread byte; the
\* hang-up of the standard-error pipe alone does not end it
C19_DrainsStdoutToTheEnd ==
    (ex.phase = "drain" /\ ex.streamEOF) =>
        ~ex.outOpen /\ ex.outPipe = <<>>

C21_EveryEntryOnce ==
    /\ Len(dir.stream) <= dir.n - dir.from
    /\ \A i \in 1 .. Len(dir.stream) :
          dir.stream[i] = [name |-> d_name(dir.from + i), off |-> dir.from + i]
    /\ dir.next = dir.from + Len(dir.stream)
    /\ (dir.calls > 0 /\ ~dir.full) => Len(dir.stream) = dir.n - dir.from
    /\ (dir.calls > 0 /\ dir.full) =>
          /\ dir.dh.entry = d_name(dir.next + 1)
          /\ dir.room <= Len(dir.stream)
    /\ dir.dh.offset = dir.next

\* the filler refused an entry in one call, and a later call of the same
\* stream, begun at offset 0, went on to the end of the directory
C21_Witness ==
    /\ dir.from = 0 /\ ~dir.moved /\ dir.calls > 0 /\ ~dir.full
    /\ dir.room < dir.n
    /\ Len(dir.stream) = dir.n /\ dir.n = MaxDirEntries

\* C22: during one render the section stack holds at least one section in
\* every state between start and stop, its depth is 1 plus the number of
\* sections entered and not yet left, and after stop the stack is empty.
C22_StackFollowsSections ==
    /\ context.phase = "running" =>
           /\ Len(context.stack) >= 1
           /\ Len(context.stack) = 1 + Len(context.frames)
    /\ context.phase = "stopped" => context.stack = << >>

\* the same while every sectionPush has allocated its section
C22_StackFollowsSectionsWhenAllocated ==
    ~context.pushFailed => C22_StackFollowsSections

C22_WitnessEnteredTwice ==
    /\ context.phase = "running"
    /\ ~context.pushFailed
    /\ Len(context.frames) = 2
    /\ Len(context.stack) = 3

\* the names of the keys directly below base, in the order of the key set
DirectChildren(base) ==
    LET names == [i \in 1 .. Len(KeySet) |-> KeySet[i].name]
        Direct(name) == keyIsDirectlyBelow(Key(base, FALSE), Key(name, FALSE))
    IN  SelectSeq(names, Direct)

\* what a sel that addresses the key of that name has to leave in the
\* section and return
Addressed(section, name) ==
    IF ksSearch(name) < 0 THEN [result |-> 0, selection |-> NoKey]
    ELSE IF ~KeySet[ksSearch(name) + 1].array THEN [result |-> 1, selection |-> Key(name, TRUE)]
    ELSE IF DirectChildren(name) = << >> THEN [result |-> 0, selection |-> Key(name, TRUE)]
    ELSE [result |-> 1, selection |-> Key(DirectChildren(name)[1], TRUE)]

\* C23: iterating an array key activates every direct child of the key
\* exactly once, in the order of the key set, and no other key; sel and next
\* return 1 exactly when an element was activated, and sel on an array with
\* no direct children returns 0.
C23_Step ==
    /\ context'.op = "next" /\ context.stack # << >> =>
           LET at == IF Len(context.stack) > 1 THEN 2 ELSE 1
               before == context.stack[at]
               after == context'.stack[at]
               kids == DirectChildren(before.arraySelection.name)
           IN  before.isArray =>
                   IF Len(before.seen) < Len(kids)
                   THEN /\ context'.result = 1
                        /\ after.selection = Key(kids[Len(before.seen) + 1], TRUE)
                        /\ after.seen = Append(before.seen, kids[Len(before.seen) + 1])
                   ELSE /\ context'.result = 0
                        /\ after.seen = kids
                        /\ after.selection = before.selection
    /\ context'.op = "sel" /\ context'.phase = "running" =>
           LET after == context'.stack[1]
           IN  /\ after.isArray /\ after.seen # context.stack[1].seen =>
                   /\ context'.result = 1
                   /\ DirectChildren(after.arraySelection.name) # << >>
                   /\ after.seen = <<DirectChildren(after.arraySelection.name)[1]>>
                   /\ after.selection = Key(after.seen[1], TRUE)
               /\ \A i \in 1 .. Len(KeySet) :
                      /\ KeySet[i].array
                      /\ ~after.selection.null
                      /\ after.selection.name = KeySet[i].name
                      => /\ context'.result = 0
                         /\ DirectChildren(KeySet[i].name) = << >>

C23_ArrayIteration ==
    [][context' # context => C23_Step]_vars

\* an iteration that has come to its end: the outer array behind an
\* entered section, every element of it activated
C23_WitnessIterated ==
    /\ context.phase = "running"
    /\ context.op = "next"
    /\ context.result = 0
    /\ Len(context.stack) = 2
    /\ context.stack[2].isArray
    /\ context.stack[2].seen = << <<"a", "#0">>, <<"a", "#1">> >>

\* C24: during an array iteration, at any depth and after any number of next
\* calls, a sel that appends a name in the entered section selects
\* <current element>/name, the current element being the one the array
\* section activated last.
C24_Step ==
    /\ context'.op = "sel"
    /\ ~context.pushFailed
    /\ Len(context.stack) > 1
    /\ context.stack[2].isArray
    /\ context'.name \notin DOMAIN Absolute
    => LET element == context.stack[2].seen[Len(context.stack[2].seen)]
           expected == Addressed(context.stack[1], Append(element, context'.name))
       IN  /\ context.stack[2].seen # << >>
           /\ context.stack[2].selection = Key(element, TRUE)
           /\ context'.result = expected.result
           /\ context'.stack[1].selection = expected.selection

C24_SelBelowCurrentElement ==
    [][context' # context => C24_Step]_vars

\* a name found below the second element of the inner array
C24_WitnessSecondInner ==
    /\ context.phase = "running"
    /\ ~context.pushFailed
    /\ context.op = "sel"
    /\ context.result = 1
    /\ Len(context.stack) = 3
    /\ context.stack[1].selection = Key(<<"a", "#0", "b", "#1", "n">>, TRUE)

\* C25: between start and stop every section with isArray true has its array
\* base set and its selection referencing a direct child of that base.
C25_ArraySelectionIsAnElement ==
    context.phase = "running" =>
        \A i \in 1 .. Len(context.stack) :
            context.stack[i].isArray =>
                /\ ~context.stack[i].arraySelection.null
                /\ ~context.stack[i].selection.null
                /\ keyIsDirectlyBelow(context.stack[i].arraySelection,
                                      context.stack[i].selection)

\* a tFSTree that anchors path resolution: an open directory's descriptor
ValidAnchor(tree) ==
    tree.dir /\ tree.fd = AnchorFd

\* C26: when the mountpoint or the templates path is absent from the command
\* line, or setupFSTree cannot resolve it to an existing directory, the
\* process exits with code 2 and neither constructs a session nor mounts; a
\* mounted filesystem has two valid anchor descriptors.
C26_NoMountWithoutAnchors ==
    /\ boot.mounts > 0 =>
           /\ ~boot.privateData.null
           /\ ValidAnchor(boot.privateData.mountpoint)
           /\ ValidAnchor(boot.privateData.templates)
    /\ /\ boot.pc = "exited"
       /\ "main" \in {boot.ran[i] : i \in 1 .. Len(boot.ran)}
       /\ main(boot.cmd).failed \in {"none", "mountpoint", "templates"}
       /\ ~boot.cmd.show_version /\ ~boot.cmd.show_help
       /\ boot.cmd.mountpoint # "dir" \/ boot.cmd.templates # "dir"
       => /\ boot.signal = 0
          /\ boot.exit = 2
          /\ boot.fuse = "none"
          /\ boot.mounts = 0

\* the part of it that the code has: an absent path
C26_AbsentPathExitsWith2 ==
    /\ boot.pc = "exited"
    /\ main(boot.cmd).failed \in {"mountpoint", "templates"}
    => /\ boot.signal = 0
       /\ boot.exit = 2
       /\ boot.fuse = "none"
       /\ boot.mounts = 0

\* the exit code the stage that failed first stands for
StageCode ==
    [s \in {"fuse_parse_cmdline", "mountpoint", "fuse_opt_parse", "templates", "fuse_new",
            "fuse_mount", "fuse_daemonize", "fuse_set_signal_handlers", "fuse_loop", "none"}
       |-> CASE s = "fuse_parse_cmdline" -> 1
             [] s = "mountpoint" -> 2
             [] s = "fuse_opt_parse" -> 8
             [] s = "templates" -> 2
             [] s = "fuse_new" -> 3
             [] s = "fuse_mount" -> 4
             [] s = "fuse_daemonize" -> 5
             [] s = "fuse_set_signal_handlers" -> 6
             [] s = "fuse_loop" -> 7
             [] s = "none" -> 0]

\* the stages of lightFuse in their order
Stages ==
    <<"fuse_new", "fuse_mount", "fuse_daemonize", "fuse_set_signal_handlers", "fuse_loop">>

StageRan(stage) ==
    \E i \in 1 .. Len(boot.ran) : boot.ran[i] = stage

\* C27: the exit code names the startup stage that failed first (1, 2, 8, 2,
\* 3, 4, 5, 6, 7; 0 for help, version and a clean run), no later stage runs
\* after a stage failed, and the filesystem is unmounted exactly when the
\* mount had succeeded.
C27_ExitCodeNamesTheStage ==
    /\ boot.cmd.libfuse = "ok" /\ boot.pc = "exited" =>
           /\ boot.signal = 0
           /\ boot.exit = StageCode[boot.failed]
           /\ boot.unmounts = boot.mounts
    /\ \A i, j \in 1 .. Len(Stages) :
           i < j /\ boot.failed = Stages[i] => ~StageRan(Stages[j])
    /\ boot.failed \in {"fuse_parse_cmdline", "mountpoint", "fuse_opt_parse", "templates"} =>
           \A i \in 1 .. Len(Stages) : ~StageRan(Stages[i])

\* the same for every run in which fuse_new returned a session
C27_ExitCodeWithASession ==
    boot.fuse # "null" => C27_ExitCodeNamesTheStage

C27_WitnessLoopFailed ==
    /\ boot.pc = "exited"
    /\ boot.failed = "fuse_loop"
    /\ boot.signal = 0
    /\ boot.exit = 7
    /\ boot.mounts = 1
    /\ boot.unmounts = 1

\* C29: on every return path of processTemplate, whichever step failed,
\* every mapping it created is unmapped and every store handle and key set
\* it opened is closed; none survives the call, none is released twice.
C29_ReturnsWithNothingHeld ==
    /\ render.pc = "returned" =>
           /\ render.template # "mapped"
           /\ render.kdb # "open"
           /\ render.keySet # "live"
           /\ render.unmaps = render.maps
           /\ render.kdbCloses = render.kdbOpens
           /\ render.ksDels = render.ksNews
    /\ ~render.twice

\* a second call that returns after the expansion failed
C29_WitnessExpansionFailed ==
    /\ render.pc = "returned"
    /\ render.calls = 2
    /\ render.failedAt = "mustach_wrap_mem"
    /\ render.maps = 2
    /\ render.kdbOpens = 2
    /\ render.ksNews = 2

\* C30: the drain loop is left only after a hang-up or error event was
\* reported on one of the two pipes; a wait that times out or reports no
\* event, however often, neither ends the loop nor makes open fail.
C30_Step ==
    /\ ex.phase = "drain" /\ ex'.phase # "drain" => ex.streamEOF
    /\ ex.phase = "drain" /\ ~ex.streamEOF /\ ex'.streamEOF =>
           /\ ex'.waits = ex.waits
           /\ \E fd \in {"out", "err"} : PipeEvent(ex, fd).hup
    /\ ex.phase = "drain" /\ ex'.waits > ex.waits =>
           /\ ex'.phase = "drain"
           /\ ~ex'.streamEOF
           /\ last' = last
    /\ /\ last' # last
       /\ last'.op = "open"
       /\ ex.phase = "drain"
       /\ ex.waits > 0
       /\ ex.child = "exited" /\ ex.status = 0
       /\ last'.fault = "none"
       => last'.result = 0

C30_WaitsDoNotEndTheLoop ==
    [][C30_Step]_vars

\* an open that returned 0 after the wait had gone by MaxWaits times
C30_WitnessOpenAfterWaits ==
    /\ last.op = "open"
    /\ last.path = "/e"
    /\ last.result = 0
    /\ last.fault = "none"
    /\ last.waits = MaxWaits

\* C28: for every elastic buffer, after newElasticBuffer and after every
\* getSpacePtr, makeRoom and increaseAvailable call in any order,
\* remaining >= headroom, and remaining grows only by 2 * headroom at a
\* moment when remaining < headroom.
C28_Grows ==
    LET used == elastic.buf.remaining - elastic'.additional
    IN  elastic'.buf.remaining # used =>
            /\ used < elastic.buf.headroom
            /\ elastic'.buf.remaining = used + 2 * elastic.buf.headroom

C32_Step ==
    /\ context'.op \in {"start", "enter"} /\ Len(context'.stack) = Len(context.stack) =>
           context'.result = -ENOMEM
    /\ context'.op = "enter" /\ context'.result = 1 =>
           Len(context'.stack) = Len(context.stack) + 1
    /\ context'.op = "leave" /\ Len(context'.stack) < Len(context.stack) =>
           Len(context.stack) = 1 + Len(context.frames)

C32_PushFailureIsReported ==
    [][context' # context => C32_Step]_vars

\* the part of it that start has
C32_StartReportsPushFailure ==
    context.op = "start" /\ context.stack = << >> => context.result = -ENOMEM

\* C33: leave on an empty section stack returns MUSTACH_ERROR_TOO_DEEP and
\* leaves the stack empty; leave on a non-empty stack returns MUSTACH_OK (0)
\* and removes exactly the top section.
C33_Step ==
    IF context.stack = << >>
    THEN context'.result = MUSTACH_ERROR_TOO_DEEP /\ context'.stack = << >>
    ELSE context'.result = 0 /\ context'.stack = Tail(context.stack)

C33_LeavePopsExactlyTheTop ==
    [][context' # context /\ context'.op = "leave" => C33_Step]_vars

C33_WitnessLeftTooOften ==
    /\ context.op = "leave"
    /\ context.result = MUSTACH_ERROR_TOO_DEEP
    /\ context.stack = << >>

\* C34: enter pushes a section whose selection, array base (equal as keys:
\* the same name, or both NULL), is_array flag and cursor equal those of
\* the section that was on top; sel, subsel,
\* compare and get change no field of any section below the top; next
\* changes only the cursor and the selection of one section and only moves
\* the cursor forward; leave removes the top and nothing else. So a
\* section's array base and is_array flag are the same after the matching
\* leave as at enter.
SameKey(k, l) ==
    k.null = l.null /\ k.name = l.name

SameArrayState(s, t) ==
    /\ SameKey(s.selection, t.selection)
    /\ SameKey(s.arraySelection, t.arraySelection)
    /\ s.isArray = t.isArray
    /\ s.cursor = t.cursor

C34_Step ==
    LET old == context.stack
        new == context'.stack
    IN  /\ context'.op = "enter" /\ Len(new) = Len(old) + 1 =>
               /\ Tail(new) = old
               /\ old # << >> => SameArrayState(new[1], old[1])
        /\ context'.op \in {"sel", "subsel", "compare", "get"} /\ context'.phase = "running" =>
               /\ Len(new) = Len(old)
               /\ old # << >> => Tail(new) = Tail(old)
        /\ context'.op \in {"subsel", "compare", "get"} => new = old
        /\ context'.op = "next" =>
               /\ Len(new) = Len(old)
               /\ \A i \in 1..Len(old) :
                      /\ new[i].arraySelection = old[i].arraySelection
                      /\ new[i].isArray = old[i].isArray
                      /\ new[i].cursor >= old[i].cursor
                      /\ i # (IF Len(old) > 1 THEN 2 ELSE 1) => new[i] = old[i]
        /\ context'.op = "leave" /\ old # << >> => new = Tail(old)

C34_OuterArrayStateIsPreserved ==
    [][context' # context => C34_Step]_vars

C34_WitnessInnerArrayLeft ==
    /\ context.op = "leave"
    /\ ~context.pushFailed
    /\ Len(context.stack) = 2
    /\ context.stack[1].isArray
    /\ context.stack[2].isArray
    /\ context.stack[1].arraySelection # context.stack[2].arraySelection

\* C39: with only the initial section on the stack, an append-mode sel of
\* a name that has a key directly below system:/config selects that key
\* (the first element, for an array) and returns 1, whatever sels came
\* before it.
C39_Step ==
    /\ context'.name = "k" =>
           /\ context'.result = 1
           /\ context'.stack[1].selection.name = <<"k">>
    /\ context'.name = "a" =>
           /\ context'.result = 1
           /\ context'.stack[1].selection.name = <<"a", "#0">>

C39_TopLevelSelStartsAtTheRoot ==
    [][/\ context' # context
       /\ context'.op = "sel"
       /\ Len(context.stack) = 1
       /\ context.frames = << >>
       => C39_Step]_vars

\* the part of it that holds: the first sel after start
C39_FirstSelStartsAtTheRoot ==
    [][/\ context' # context
       /\ context'.op = "sel"
       /\ context.op = "start"
       => C39_Step]_vars

\* C35: on a template-backed handle flush returns 0 and lseek returns
\* -ENFILE; neither flush nor lseek changes a descriptor, a handle or its
\* cache; on a pass-through handle flush closes no descriptor of the table,
\* so the handle's descriptor is as valid after the flush as before it.
C35_Step ==
    LET fi == last'.tok
        fh == IF fi \in DOMAIN tokens THEN tokens[fi] ELSE NULL
    IN  fh # NULL /\ handles[fh].type = "isFile" =>
            /\ handles' = handles
            /\ fds' = fds
            /\ tokens' = tokens
            /\ handles[fh].isTemplate /\ last'.op = "flush" => last'.result = 0
            /\ handles[fh].isTemplate /\ last'.op = "lseek" => last'.result = -ENFILE
            /\ ~handles[fh].isTemplate /\ last'.op = "flush" /\ FdValid(handles[fh].fd) =>
                   /\ fds'[handles'[fh].fd].open
                   /\ fds'[handles'[fh].fd].closes = fds[handles[fh].fd].closes

C35_FlushAndLseekKeepTheHandle ==
    [][last'.op \in {"flush", "lseek"} => C35_Step]_vars

\* a pass-through handle was flushed and its descriptor is open, never closed
C35_WitnessFlushedPassThrough ==
    /\ last.op = "flush"
    /\ last.result = 0
    /\ last.tok \in OpenTok
    /\ tokens[last.tok] # NULL
    /\ ~handles[tokens[last.tok]].isTemplate
    /\ handles[tokens[last.tok]].type = "isFile"
    /\ FdValid(handles[tokens[last.tok]].fd)
    /\ fds[handles[tokens[last.tok]].fd].closes = 0

\* C36: when open, opendir or create has returned an error, nothing it
\* acquired is left: the handle storage is not allocated, the descriptor is
\* not open and the token does not point at a handle.
C36_NothingSurvivesAnError ==
    last.op \in {"open", "opendir", "create"} /\ last.result < 0 /\ last.tok \in Tok =>
        /\ ~handles[last.tok].alloc
        /\ ~fds[last.tok].open
        /\ tokens[last.tok] = NULL

\* the part of it that holds: a failed allocation leaves nothing behind
C36_NothingSurvivesENOMEMOfTheHandle ==
    /\ last.op \in {"open", "opendir", "create"}
    /\ last.fault \in {"calloc", "malloc"}
    /\ last.tok \in Tok
    => /\ last.result = -ENOMEM
       /\ ~handles[last.tok].alloc
       /\ ~fds[last.tok].open
       /\ tokens[last.tok] = NULL

\* C38: with two directory handles on "/", a readdir or seekdir on one
\* changes neither the position of the mount anchor's descriptor nor the
\* entry the other handle's stream gives next; a stream read from its
\* opening to the end has delivered every root entry once; a release
\* leaves the anchor's descriptor and the other handle as they were.
NextEntry(stream, pos) ==
    IF stream.entry # NULL THEN stream.entry
    ELSE IF stream.buf # <<>> THEN Head(stream.buf)
    ELSE pos + 1

C38_Step ==
    LET t == dir'.tok
        other == 3 - t
    IN  /\ dir'.anchorOpen
        /\ dir'.dh[other] = dir.dh[other]
        /\ dir'.op \in {"readdir", "releasedir"} =>
               /\ dir'.pos = dir.pos
               /\ dir.dh[other].st = "open" =>
                      NextEntry(dir'.dh[other], dir'.pos) = NextEntry(dir.dh[other], dir.pos)

C38_Delivered ==
    \A t \in RootTok :
        dir.dh[t].eof /\ dir.dh[t].seeks = 0 =>
            dir.dh[t].out = [i \in 1 .. dir.n |-> i]

C38_RootHandlesAreIndependent ==
    /\ [][dir' # dir => C38_Step]_vars
    /\ []C38_Delivered

\* the part of it that holds: releasing a handle on "/"
C38_ReleaseLeavesTheOthers ==
    [][dir' # dir /\ dir'.op = "releasedir" => C38_Step]_vars

\* C37: two opens of executable templates that run on two threads share no
\* readiness events: a call handles events of its own two pipes only, and
\* when it returns it has read every byte its child wrote to standard
\* output, as it has when the calls run one after the other.
C37_ConcurrentOpensAreIndependent ==
    \A t \in Threads :
        /\ ~ex.th[t].foreign
        /\ ex.th[t].pc = "done" =>
               ex.th[t].pipe = 0 /\ ex.th[t].got = ex.th[t].written

\* the part of it that holds: calls that do not overlap
C37_SequentialOpensAreIndependent ==
    ~ex.overlap =>
        \A t \in Threads :
            /\ ~ex.th[t].foreign
            /\ ex.th[t].pc = "done" =>
                   ex.th[t].pipe = 0 /\ ex.th[t].got = ex.th[t].written

\* C40: in every state of the drain loop and for each of the two buffers
\* the bytes in use are not negative and are the bytes that reads have
\* stored in the buffer, in use plus remaining is not more than the
\* allocated size, the last read asked for no more than was remaining, and
\* a read that returned -1 or 0 left the bytes in use as they were.
C40_BufferAccounting ==
    /\ elastic.stdoutBuf.available >= 0
    /\ elastic.stdoutBuf.available = elastic.totalOut
    /\ elastic.stdoutBuf.available + elastic.stdoutBuf.remaining <= elastic.allocOut
    /\ elastic.stderrBuf.available >= 0
    /\ elastic.stderrBuf.available = elastic.totalErr
    /\ elastic.stderrBuf.available + elastic.stderrBuf.remaining <= elastic.allocErr
    /\ elastic.result > 0 => elastic.result <= elastic.asked
    /\ elastic.result <= 0 => elastic.stderrBuf.available = elastic.before

\* the part of it that holds: as long as no read has failed
C40_BufferAccountingWithoutFailure ==
    ~elastic.failed => C40_BufferAccounting
====
